---- MODULE Spec2Model ----
(***************************************************************************)
(* The asynchronous persistence core of logqbit: the debounced background  *)
(* writer of a LogFolder and the flush/stop synchronisation around it.     *)
(*                                                                         *)
(* Two implementations of the writer live in the repository and both are   *)
(* modelled.  impl selects which one a behaviour runs:                     *)
(*   "LogFolder"    src/src/logqbit/logfolder.py: LogFolder._writer, save, *)
(*                  add_row, _cleanup (events _dirty, _stop, lock _lock);  *)
(*   "DataHandler"  src/notebooks/flush_issue_investigation.py:            *)
(*                  _DataHandler._run and flush (events _dirty,            *)
(*                  _skip_debounce, _flush_complete, flag _should_stop).   *)
(* Each statement of a thread that reads or writes shared state is one     *)
(* step, so that the other thread can run between any two of them.         *)
(*                                                                         *)
(* The row buffer is append-only; rows are numbered in insertion order, so *)
(* a table is the number n of its rows (the rows 1..n).  The serialisers   *)
(* (parquet/feather, yaml) are opaque codecs: a complete file holds the    *)
(* table it was written from, a file being written holds a partial one.    *)
(***************************************************************************)
EXTENDS Integers, Sequences, FiniteSets, TLC

VARIABLES
    impl,            \* which writer implementation runs
    pc,              \* pc[t]: position of thread t ("writer", "caller")
    rows,            \* number of rows in the row buffer
    dirty,           \* threading.Event _dirty
    stop,            \* _stop (LogFolder) / _should_stop (_DataHandler)
    skip_debounce,   \* threading.Event _skip_debounce (_DataHandler)
    flush_complete,  \* threading.Event _flush_complete (_DataHandler)
    lock,            \* threading.Lock _lock of LogFolder.save: holder or "free"
    df,              \* the table last materialised for a write (the snapshot)
    tmp,             \* the temporary file path.with_suffix(".tmp")
    data,            \* the data file at data_path / self.path
    meta,            \* version of the in-memory meta mapping
    meta_file,       \* the meta file at meta_path
    fl,              \* history: the caller's current or last flush()/save() call
    fc_df,           \* history: snapshot of the write that last set _flush_complete
    late,            \* history: last row added between a clear of _dirty and the end of that cycle
    cyc,             \* history: data-file writes the writer finished since its last clear of _dirty
    stop_at,         \* history: where the writer was when the stop flag was set
    \* index.py: FileLock and LogIndex, used by the processes Procs on one path
    ipc,             \* ipc[p]: position of process p
    iop,             \* iop[p]: the operation p is running and its arguments
    fd,              \* fd[p]: inode FileLock._file of p has open, 0 for None
    locked,          \* locked[p]: p's open file holds the flock
    lock_inode,      \* inode linked at the lock path, 0 when the path does not exist
    iroot,           \* iroot[p]: LogIndex.root of p's instance
    isnap,           \* isnap[p]: fingerprint held by LogIndex._snap of p's instance
    ires,            \* ires[p]: how p's last operation ended
    ix_file,         \* the index file: its record and its fingerprint
    ix_tmp,          \* the file path.with_suffix(".tmp")
    seen,            \* history: values the key p is reading had in the file since the read began
    unsaved,         \* history: iroot[p] holds an assignment whose save failed
    \* logfolder.py: LogFolder.new, called by the processes Procs on one parent
    dirs,            \* decimal names of the directories in the parent directory
    files,           \* decimal names of its entries that are not directories
    npc,             \* npc[p]: position of process p in new()
    new_index,       \* new_index[p]: the local new_index of p's call
    scanned,         \* history: the directory names p's scan of the parent saw
    returned,        \* history: the folders the calls of new() have returned
    ncalls,          \* ncalls[p]: calls of new() p has made
    \* logfolder.py: the row buffer of one LogFolder (add_row, df)
    records,         \* LogFolder._records: the pending scalar rows
    segs,            \* LogFolder._segs: the segments, each a table
    calls,           \* history: the add_row calls made, in order
    bres,            \* how the last add_row or df call ended, and df's table
    \* logfolder.py: the data file of that LogFolder and its reopening
    bfile,           \* the file at data_path: absent, or the table written
    loaded,          \* history: rows the instance loaded when constructed, -1 on a new folder
    \* logfolder.py: the writer thread and the caller's thread on that buffer
    wpos,            \* position of the writer thread in _writer / save / df
    wdf,             \* the local df of the writer's df call
    cpos,            \* position of the caller's thread in add_row
    ckw,             \* the keyword arguments of the caller's add_row call
    \* browser.py, index.py: the star and trash flags of one index.json
    flags,           \* the flag keys of the file at path and their values
    info,            \* the browser's IndexInfo of the record (star, trash)
    fres,            \* what the last read of a flag returned, and through which API
    fwr,             \* history: the last value set for each flag, and through which API
    \* logfolder.py: the constructor of LogFolder on one path
    opc,             \* position of the caller in LogFolder.__init__
    oc,              \* the create argument of the call
    odir,            \* the directory at path exists
    othreads,        \* the writer threads started: position, and the folder's fate
    ores             \* how the last construction ended

vars == <<impl, pc, rows, dirty, stop, skip_debounce, flush_complete, lock, df,
          tmp, data, meta, meta_file, fl, fc_df, late, cyc, stop_at,
          ipc, iop, fd, locked, lock_inode, iroot, isnap, ires, ix_file, ix_tmp,
          seen, unsaved,
          dirs, files, npc, new_index, scanned, returned, ncalls,
          records, segs, calls, bres,
          bfile, loaded, wpos, wdf, cpos, ckw,
          flags, info, fres, fwr,
          opc, oc, odir, othreads, ores>>

\* The variables of the writer, and those of FileLock and LogIndex.
wvars == <<impl, pc, rows, dirty, stop, skip_debounce, flush_complete, lock, df,
           tmp, data, meta, meta_file, fl, fc_df, late, cyc, stop_at>>
ivars == <<ipc, iop, fd, locked, lock_inode, iroot, isnap, ires, ix_file, ix_tmp,
           seen, unsaved>>
\* The variables of LogFolder.new and those of the row buffer.
nvars == <<dirs, files, npc, new_index, scanned, returned, ncalls>>
bvars == <<records, segs, calls, bres>>
\* The variables of the other parts of the package.
xvars == <<bfile, loaded, wpos, wdf, cpos, ckw>>
\* The variables of the star and trash flags, and those of the constructor
\* of LogFolder.
fvars == <<flags, info, fres, fwr>>
ovars == <<opc, oc, odir, othreads, ores>>
yvars == <<fvars, ovars>>

\* Bounds of the model.
MaxRows == 3
MaxMeta == 1
MaxCyc == 2
MaxVal == 1
MaxWrites == 2
MaxDir == 2
MaxNew == 2
MaxLen == 2
MaxCalls == 3

Threads == {"writer", "caller"}

\* Files: absent, being written (partial), or complete with the table of n rows.
Absent == [st |-> "absent", n |-> 0]
Partial == [st |-> "partial", n |-> 0]
Full(n) == [st |-> "full", n |-> n]

\* The record kept of a call of the caller: the operation, the rows in the
\* buffer and the dirty signal when it was called, whether the writer was then
\* blocked in one of its waits, how the call ended, the snapshot of the write
\* that ended it, whether the call reported an error to its caller, and where
\* the writer was when a flush() call last set _skip_debounce.
NoCall == [op |-> "none", rows |-> 0, dirty |-> FALSE, force |-> FALSE, waiting |-> FALSE,
           res |-> "none", snap |-> 0, err |-> FALSE, skip_at |-> "none"]

\* The processes that use the index file, its keys and their values.
Procs == {"A", "B"}
Keys == {"title", "starred"}
Vals == 0..MaxVal
Recs == [Keys -> Vals]
Inodes == 1..(Cardinality(Procs) + 1)

ZeroRec == [k \in Keys |-> 0]

\* The temporary file: absent, cut short by a failed write, or a whole record.
NoTmp == [st |-> "absent", rec |-> ZeroRec]
PartialTmp == [st |-> "partial", rec |-> ZeroRec]
FullTmp(r) == [st |-> "full", rec |-> r]

\* The fingerprint of the file after a write: one that differs from the
\* file's present one and from every fingerprint an instance holds (the
\* fingerprints are only compared for equality).
NextStamp ==
    CHOOSE s \in 0..(Cardinality(Procs) + 1) :
        /\ s # ix_file.stamp /\ \A q \in Procs : isnap[q] # s
        /\ \A t \in 0..(Cardinality(Procs) + 1) :
              (t # ix_file.stamp /\ \A q \in Procs : isnap[q] # t) => s <= t

\* The index file: absent, or holding a whole record, or cut short (opened
\* for writing and not yet written).  stamp is its fingerprint; n counts
\* the saves that replaced it.
NoFile == [st |-> "absent", rec |-> ZeroRec, stamp |-> 0, n |-> 0]
TruncatedFile(f) ==
    [st |-> "partial", rec |-> ZeroRec, stamp |-> NextStamp, n |-> f.n]
DefaultFile(f) ==
    [st |-> "full", rec |-> ZeroRec, stamp |-> NextStamp, n |-> f.n]

NoOp == [kind |-> "none", k |-> "title", v |-> 0, dor |-> TRUE, exc |-> "none"]

\* No process has opened the index yet; neither the index file nor a lock
\* file is there.
IInit(at) ==
    /\ ipc = [p \in Procs |-> at]
    /\ iop = [p \in Procs |-> NoOp]
    /\ fd = [p \in Procs |-> 0]
    /\ locked = [p \in Procs |-> FALSE]
    /\ lock_inode = 0
    /\ iroot = [p \in Procs |-> [k \in Keys |-> 0]]
    /\ isnap = [p \in Procs |-> 0]
    /\ ires = [p \in Procs |-> "none"]
    /\ ix_file = NoFile
    /\ ix_tmp = NoTmp
    /\ seen = [p \in Procs |-> {}]
    /\ unsaved = [p \in Procs |-> FALSE]

WInit(impls) ==
    /\ impl \in impls
    /\ pc = [t \in Threads |-> IF t = "writer" THEN "loop" ELSE "idle"]
    /\ rows = 0
    /\ dirty = FALSE
    /\ stop = FALSE
    /\ skip_debounce = FALSE
    /\ flush_complete = FALSE
    /\ lock = "free"
    /\ df = 0
    /\ tmp = Absent
    /\ data = Absent
    /\ meta = 0
    /\ meta_file = Absent
    /\ fl = NoCall
    /\ fc_df = 0
    /\ late = 0
    /\ cyc = 0
    /\ stop_at = "none"

\* No process has called new(): the parent directory holds the directories
\* named in ds and the other entries named in fs.
NInit(ds, fs) ==
    /\ dirs = ds
    /\ files = fs
    /\ npc = [p \in Procs |-> "idle"]
    /\ new_index = [p \in Procs |-> 0]
    /\ scanned = [p \in Procs |-> {}]
    /\ returned = {}
    /\ ncalls = [p \in Procs |-> 0]

\* LogFolder.__init__ on a new folder: no pending rows, no segments.
NoResult == [res |-> "none", cols |-> <<>>, rows |-> <<>>]
BInit ==
    /\ records = <<>>
    /\ segs = <<>>
    /\ calls = <<>>
    /\ bres = NoResult

\* No data file has been written.
NoData == [st |-> "absent", cols |-> <<>>, rows |-> <<>>]
XInit ==
    /\ bfile = NoData
    /\ loaded = -1
    /\ wpos = "wait"
    /\ wdf = [cols |-> <<>>, rows |-> <<>>]
    /\ cpos = "idle"
    /\ ckw = [keys |-> <<"x">>, lens |-> [k \in {"x"} |-> -1]]

\* index.py 26-36: the record the constructor of LogIndex writes has the keys
\* "starred" and "trashed", both false, and neither "star" nor "trash".  The
\* browser's IndexInfo starts as browser.py 77-78 declares it.
NoWrite == [api |-> "none", val |-> 0]
YInit ==
    /\ flags = [keys |-> {"starred", "trashed"}, star |-> 0, trash |-> FALSE,
                starred |-> FALSE, trashed |-> FALSE]
    /\ info = [star |-> 0, trash |-> FALSE]
    /\ fres = [api |-> "none", field |-> "none", star |-> 0, trash |-> FALSE,
               wr |-> [star |-> NoWrite, trash |-> NoWrite]]
    /\ fwr = [star |-> NoWrite, trash |-> NoWrite]
    /\ opc = "idle"
    /\ oc = TRUE
    /\ odir = FALSE
    /\ othreads = <<>>
    /\ ores = "none"

Init ==
    /\ WInit({"LogFolder", "DataHandler"}) /\ IInit("new") /\ NInit({}, {}) /\ BInit
    /\ XInit /\ YInit

Goto(t, l) == pc' = [pc EXCEPT ![t] = l]

Min(a, b) == IF a < b THEN a ELSE b

----------------------------------------------------------------------------
(* _DataHandler: the background thread _run.                               *)

\* States of _run after get_df cleared _dirty and before the cycle ends.
DH_PostClear == {"get_df_snap", "to_feather", "replace", "set_fc"}

\* while not self._should_stop:
DH_run_loop ==
    /\ impl = "DataHandler" /\ pc["writer"] = "loop"
    /\ Goto("writer", IF stop THEN "stopped" ELSE "wait_dirty")
    /\ UNCHANGED <<impl, rows, dirty, stop, stop_at, skip_debounce, flush_complete, lock, df,
                   tmp, data, meta, meta_file, fl, fc_df, late, cyc>>

\* self._dirty.wait()
DH_run_wait_dirty ==
    /\ impl = "DataHandler" /\ pc["writer"] = "wait_dirty"
    /\ dirty
    /\ Goto("writer", "check_stop")
    /\ UNCHANGED <<impl, rows, dirty, stop, stop_at, skip_debounce, flush_complete, lock, df,
                   tmp, data, meta, meta_file, fl, fc_df, late, cyc>>

\* if self._should_stop: break
DH_run_check_stop ==
    /\ impl = "DataHandler" /\ pc["writer"] = "check_stop"
    /\ Goto("writer", IF stop THEN "stopped" ELSE "debounce")
    /\ UNCHANGED <<impl, rows, dirty, stop, stop_at, skip_debounce, flush_complete, lock, df,
                   tmp, data, meta, meta_file, fl, fc_df, late, cyc>>

\* if self._skip_debounce.wait(self.save_delay_secs): the wait returns True as
\* soon as the event is set, and False once save_delay_secs elapsed without it.
DH_run_debounce ==
    /\ impl = "DataHandler" /\ pc["writer"] = "debounce"
    /\ Goto("writer", IF skip_debounce THEN "clear_skip" ELSE "get_df_clear")
    /\ UNCHANGED <<impl, rows, dirty, stop, stop_at, skip_debounce, flush_complete, lock, df,
                   tmp, data, meta, meta_file, fl, fc_df, late, cyc>>

\* self._skip_debounce.clear()
DH_run_clear_skip ==
    /\ impl = "DataHandler" /\ pc["writer"] = "clear_skip"
    /\ skip_debounce' = FALSE
    /\ Goto("writer", "get_df_clear")
    /\ UNCHANGED <<impl, rows, dirty, stop, stop_at, flush_complete, lock, df,
                   tmp, data, meta, meta_file, fl, fc_df, late, cyc>>

\* df = self.get_df(_clear=True), first half: the dirty signal is cleared.
DH_get_df_clear ==
    /\ impl = "DataHandler" /\ pc["writer"] = "get_df_clear"
    /\ dirty' = FALSE
    /\ cyc' = 0
    /\ Goto("writer", "get_df_snap")
    /\ UNCHANGED <<impl, rows, stop, stop_at, skip_debounce, flush_complete, lock, df,
                   tmp, data, meta, meta_file, fl, fc_df, late>>

\* df = self.get_df(_clear=True), second half: the snapshot of the buffer.
DH_get_df_snap ==
    /\ impl = "DataHandler" /\ pc["writer"] = "get_df_snap"
    /\ df' = rows
    /\ Goto("writer", "to_feather")
    /\ UNCHANGED <<impl, rows, dirty, stop, stop_at, skip_debounce, flush_complete, lock,
                   tmp, data, meta, meta_file, fl, fc_df, late, cyc>>

\* df.to_feather(tmp): writes the temporary file; an I/O or serialisation
\* error propagates out of _run (no handler) and ends the thread.
DH_run_to_feather ==
    /\ impl = "DataHandler" /\ pc["writer"] = "to_feather"
    /\ \/ tmp' = Full(df) /\ Goto("writer", "replace")
       \/ tmp' = Partial /\ Goto("writer", "crashed")
    /\ UNCHANGED <<impl, rows, dirty, stop, stop_at, skip_debounce, flush_complete, lock, df,
                   data, meta, meta_file, fl, fc_df, late, cyc>>

\* tmp.replace(self.path): the atomic rename over the data file.
DH_run_replace ==
    /\ impl = "DataHandler" /\ pc["writer"] = "replace"
    /\ data' = tmp
    /\ tmp' = Absent
    /\ cyc' = Min(cyc + 1, MaxCyc)
    /\ Goto("writer", "set_fc")
    /\ UNCHANGED <<impl, rows, dirty, stop, stop_at, skip_debounce, flush_complete, lock, df,
                   meta, meta_file, fl, fc_df, late>>

\* self._flush_complete.set()
DH_run_set_fc ==
    /\ impl = "DataHandler" /\ pc["writer"] = "set_fc"
    /\ flush_complete' = TRUE
    /\ fc_df' = df
    /\ Goto("writer", "loop")
    /\ UNCHANGED <<impl, rows, dirty, stop, stop_at, skip_debounce, lock, df,
                   tmp, data, meta, meta_file, fl, late, cyc>>

DH_run ==
    \/ DH_run_loop
    \/ DH_run_wait_dirty
    \/ DH_run_check_stop
    \/ DH_run_debounce
    \/ DH_run_clear_skip
    \/ DH_get_df_clear
    \/ DH_get_df_snap
    \/ DH_run_to_feather
    \/ DH_run_replace
    \/ DH_run_set_fc

----------------------------------------------------------------------------
(* _DataHandler: the caller's thread.                                      *)

\* add_row: the row is appended to the buffer and the writer is marked dirty.
DH_add_row ==
    /\ impl = "DataHandler" /\ pc["caller"] = "idle"
    /\ rows < MaxRows
    /\ rows' = rows + 1
    /\ dirty' = TRUE
    /\ late' = IF pc["writer"] \in DH_PostClear THEN rows + 1 ELSE late
    /\ UNCHANGED <<impl, pc, stop, stop_at, skip_debounce, flush_complete, lock, df,
                   tmp, data, meta, meta_file, fl, fc_df, cyc>>

\* flush(): self._flush_complete.clear()
DH_flush_clear ==
    /\ impl = "DataHandler" /\ pc["caller"] = "idle"
    /\ flush_complete' = FALSE
    /\ fl' = [op |-> "flush", rows |-> rows, dirty |-> dirty, force |-> FALSE,
              waiting |-> pc["writer"] \in {"wait_dirty", "debounce"},
              res |-> "running", snap |-> 0, err |-> FALSE, skip_at |-> fl.skip_at]
    /\ Goto("caller", "flush_check")
    /\ UNCHANGED <<impl, rows, dirty, stop, stop_at, skip_debounce, lock, df,
                   tmp, data, meta, meta_file, fc_df, late, cyc>>

\* flush(): if self._dirty.is_set(): ... else the call returns None.
DH_flush_check ==
    /\ impl = "DataHandler" /\ pc["caller"] = "flush_check"
    /\ IF dirty
       THEN Goto("caller", "flush_set_skip") /\ fl' = fl
       ELSE Goto("caller", "idle") /\ fl' = [fl EXCEPT !.res = "nowait"]
    /\ UNCHANGED <<impl, rows, dirty, stop, stop_at, skip_debounce, flush_complete, lock, df,
                   tmp, data, meta, meta_file, fc_df, late, cyc>>

\* flush(): self._skip_debounce.set()
DH_flush_set_skip ==
    /\ impl = "DataHandler" /\ pc["caller"] = "flush_set_skip"
    /\ skip_debounce' = TRUE
    /\ fl' = [fl EXCEPT !.skip_at = pc["writer"]]
    /\ Goto("caller", "flush_wait")
    /\ UNCHANGED <<impl, rows, dirty, stop, stop_at, flush_complete, lock, df,
                   tmp, data, meta, meta_file, fc_df, late, cyc>>

\* What flush() hands to its caller after self._flush_complete.wait(timeout=5.0)
\* returned `signalled`: the result of the wait is dropped and the call returns
\* None either way, so no error is reported.
DH_flush_error(signalled) == FALSE

\* flush() with a wait that has no timeout: it returns only once the event is set.
DH_flush_wait_untimed ==
    /\ impl = "DataHandler" /\ pc["caller"] = "flush_wait"
    /\ flush_complete
    /\ fl' = [fl EXCEPT !.res = "signalled", !.snap = fc_df, !.err = FALSE]
    /\ Goto("caller", "idle")
    /\ UNCHANGED <<impl, rows, dirty, stop, stop_at, skip_debounce, flush_complete, lock, df,
                   tmp, data, meta, meta_file, fc_df, late, cyc>>

\* flush(): self._flush_complete.wait(timeout=5.0): returns True as soon as the
\* event is set, False once the timeout elapsed without it.
DH_flush_wait ==
    /\ impl = "DataHandler" /\ pc["caller"] = "flush_wait"
    /\ fl' = [fl EXCEPT !.res = IF flush_complete THEN "signalled" ELSE "timeout",
                        !.snap = IF flush_complete THEN fc_df ELSE 0,
                        !.err = DH_flush_error(flush_complete)]
    /\ Goto("caller", "idle")
    /\ UNCHANGED <<impl, rows, dirty, stop, stop_at, skip_debounce, flush_complete, lock, df,
                   tmp, data, meta, meta_file, fc_df, late, cyc>>

\* stop(): sets the stop flag and wakes the blocked waits of _run.
DH_stop ==
    /\ impl = "DataHandler" /\ pc["caller"] = "idle"
    /\ ~stop
    /\ stop' = TRUE
    /\ stop_at' = pc["writer"]
    /\ dirty' = TRUE
    /\ skip_debounce' = TRUE
    /\ Goto("caller", "join")
    /\ UNCHANGED <<impl, rows, flush_complete, lock, df,
                   tmp, data, meta, meta_file, fl, fc_df, late, cyc>>

\* stop(): joins the background thread with a bounded timeout.
DH_join ==
    /\ impl = "DataHandler" /\ pc["caller"] = "join"
    /\ Goto("caller", "idle")
    /\ UNCHANGED <<impl, rows, dirty, stop, stop_at, skip_debounce, flush_complete, lock, df,
                   tmp, data, meta, meta_file, fl, fc_df, late, cyc>>

DH_caller ==
    \/ DH_add_row
    \/ DH_flush_clear
    \/ DH_flush_check
    \/ DH_flush_set_skip
    \/ DH_flush_wait
    \/ DH_stop
    \/ DH_join

----------------------------------------------------------------------------
(* LogFolder (logfolder.py): save(), run by the writer thread from _writer  *)
(* and by the caller's thread.                                              *)

\* The writer is a daemon thread: it runs until the interpreter has exited.
LF_alive(t) == impl = "LogFolder" /\ pc["caller"] # "exited" /\ t \in Threads

\* States of _writer after self._dirty.clear() and before the cycle ends.
LF_PostClear == {"save", "save_lock", "save_open_meta", "save_dump_meta",
                 "save_df", "save_to_parquet", "save_finish"}

\* save() with the test of force inverted.
LF_save_skips_inverted(force) == ~dirty /\ force

\* save() without its early return: it always writes.
LF_save_never_skips(force) == FALSE

\* save(): if not self._dirty.is_set() and not force: return
LF_save_skips(force) == ~dirty /\ ~force

\* Where thread t continues when its save() returns.
LF_after_save(t) == IF t = "writer" THEN "loop" ELSE "idle"

\* with self._lock: (blocks until the lock is free)
LF_save_lock(t) ==
    /\ LF_alive(t) /\ pc[t] = "save_lock"
    /\ lock = "free"
    /\ lock' = t
    /\ Goto(t, "save_open_meta")
    /\ UNCHANGED <<impl, rows, dirty, stop, stop_at, skip_debounce, flush_complete, df,
                   tmp, data, meta, meta_file, fl, fc_df, late, cyc>>

\* with open(self.meta_path, "w", encoding="utf-8") as f: truncates the file.
LF_save_open_meta(t) ==
    /\ LF_alive(t) /\ pc[t] = "save_open_meta"
    /\ meta_file' = Partial
    /\ Goto(t, "save_dump_meta")
    /\ UNCHANGED <<impl, rows, dirty, stop, stop_at, skip_debounce, flush_complete, lock, df,
                   tmp, data, meta, fl, fc_df, late, cyc>>

\* yaml.dump(self.meta, f), and the file is closed.
LF_save_dump_meta(t) ==
    /\ LF_alive(t) /\ pc[t] = "save_dump_meta"
    /\ meta_file' = Full(meta)
    /\ Goto(t, "save_df")
    /\ UNCHANGED <<impl, rows, dirty, stop, stop_at, skip_debounce, flush_complete, lock, df,
                   tmp, data, meta, fl, fc_df, late, cyc>>

\* self.df: the table is materialised from the row buffer.
LF_save_df(t) ==
    /\ LF_alive(t) /\ pc[t] = "save_df"
    /\ df' = rows
    /\ Goto(t, "save_to_parquet")
    /\ UNCHANGED <<impl, rows, dirty, stop, stop_at, skip_debounce, flush_complete, lock,
                   tmp, data, meta, meta_file, fl, fc_df, late, cyc>>

\* .to_parquet(self.data_path, index=False) opens the data file itself for
\* writing: from here on the data path holds a file that is being written.
LF_save_to_parquet(t) ==
    /\ LF_alive(t) /\ pc[t] = "save_to_parquet"
    /\ data' = Partial
    /\ Goto(t, "save_finish")
    /\ UNCHANGED <<impl, rows, dirty, stop, stop_at, skip_debounce, flush_complete, lock, df,
                   tmp, meta, meta_file, fl, fc_df, late, cyc>>

\* to_parquet completes, or fails with an I/O or serialisation error; leaving
\* the with block releases the lock either way.  save() returns, or the error
\* propagates: out of _writer (no handler), ending the thread, or to the caller.
LF_save_finish(t) ==
    /\ LF_alive(t) /\ pc[t] = "save_finish"
    /\ lock' = "free"
    /\ \/ /\ data' = Full(df)
          /\ Goto(t, LF_after_save(t))
          /\ cyc' = IF t = "writer" THEN Min(cyc + 1, MaxCyc) ELSE cyc
          /\ fl' = IF t = "caller" THEN [fl EXCEPT !.res = "saved", !.snap = df] ELSE fl
       \/ /\ data' = Partial
          /\ Goto(t, IF t = "writer" THEN "crashed" ELSE "idle")
          /\ cyc' = cyc
          /\ fl' = IF t = "caller" THEN [fl EXCEPT !.res = "error", !.err = TRUE] ELSE fl
    /\ UNCHANGED <<impl, rows, dirty, stop, stop_at, skip_debounce, flush_complete, df,
                   tmp, meta, meta_file, fc_df, late>>

LF_save_body(t) ==
    \/ LF_save_lock(t)
    \/ LF_save_open_meta(t)
    \/ LF_save_dump_meta(t)
    \/ LF_save_df(t)
    \/ LF_save_to_parquet(t)
    \/ LF_save_finish(t)

----------------------------------------------------------------------------
(* LogFolder: the background thread _writer.                                *)

\* while not self._stop.is_set():
LF_writer_loop ==
    /\ LF_alive("writer") /\ pc["writer"] = "loop"
    /\ Goto("writer", IF stop THEN "stopped" ELSE "wait_dirty")
    /\ UNCHANGED <<impl, rows, dirty, stop, stop_at, skip_debounce, flush_complete, lock, df,
                   tmp, data, meta, meta_file, fl, fc_df, late, cyc>>

\* self._dirty.wait()
LF_writer_wait ==
    /\ LF_alive("writer") /\ pc["writer"] = "wait_dirty"
    /\ dirty
    /\ Goto("writer", "sleep")
    /\ UNCHANGED <<impl, rows, dirty, stop, stop_at, skip_debounce, flush_complete, lock, df,
                   tmp, data, meta, meta_file, fl, fc_df, late, cyc>>

\* time.sleep(self.SAVE_INTERVAL) has elapsed; self._dirty.clear()
LF_writer_clear ==
    /\ LF_alive("writer") /\ pc["writer"] = "sleep"
    /\ dirty' = FALSE
    /\ cyc' = 0
    /\ Goto("writer", "save")
    /\ UNCHANGED <<impl, rows, stop, stop_at, skip_debounce, flush_complete, lock, df,
                   tmp, data, meta, meta_file, fl, fc_df, late>>

\* self.save(): force is False; the first statement of save() reads _dirty.
LF_writer_save ==
    /\ LF_alive("writer") /\ pc["writer"] = "save"
    /\ Goto("writer", IF LF_save_skips(FALSE) THEN "loop" ELSE "save_lock")
    /\ UNCHANGED <<impl, rows, dirty, stop, stop_at, skip_debounce, flush_complete, lock, df,
                   tmp, data, meta, meta_file, fl, fc_df, late, cyc>>

LF_writer ==
    \/ LF_writer_loop
    \/ LF_writer_wait
    \/ LF_writer_clear
    \/ LF_writer_save
    \/ LF_save_body("writer")

----------------------------------------------------------------------------
(* LogFolder: the caller's thread.                                          *)

\* add_row(**kwargs): the row is appended to the buffer; self._dirty.set()
LF_add_row ==
    /\ impl = "LogFolder" /\ pc["caller"] = "idle"
    /\ rows < MaxRows
    /\ rows' = rows + 1
    /\ dirty' = TRUE
    /\ late' = IF pc["writer"] \in LF_PostClear THEN rows + 1 ELSE late
    /\ UNCHANGED <<impl, pc, stop, stop_at, skip_debounce, flush_complete, lock, df,
                   tmp, data, meta, meta_file, fl, fc_df, cyc>>

\* add_meta / add_meta_to_head: self.meta.update(meta); _dirty is not set.
LF_add_meta ==
    /\ impl = "LogFolder" /\ pc["caller"] = "idle"
    /\ meta < MaxMeta
    /\ meta' = meta + 1
    /\ UNCHANGED <<impl, pc, rows, dirty, stop, stop_at, skip_debounce, flush_complete, lock, df,
                   tmp, data, meta_file, fl, fc_df, late, cyc>>

\* The caller calls save(force): the first statement reads _dirty.
LF_save_call ==
    /\ impl = "LogFolder" /\ pc["caller"] = "idle"
    /\ \E force \in BOOLEAN :
         /\ fl' = [op |-> "save", rows |-> rows, dirty |-> dirty, force |-> force,
                   waiting |-> pc["writer"] \in {"wait_dirty", "sleep"},
                   res |-> IF LF_save_skips(force) THEN "skipped" ELSE "running",
                   snap |-> 0, err |-> FALSE, skip_at |-> "none"]
         /\ Goto("caller", IF LF_save_skips(force) THEN "idle" ELSE "save_lock")
    /\ UNCHANGED <<impl, rows, dirty, stop, stop_at, skip_debounce, flush_complete, lock, df,
                   tmp, data, meta, meta_file, fc_df, late, cyc>>

\* _cleanup, run by weakref.finalize: stop_event.set()
LF_cleanup ==
    /\ impl = "LogFolder" /\ pc["caller"] = "idle"
    /\ stop' = TRUE
    /\ stop_at' = pc["writer"]
    /\ Goto("caller", "join")
    /\ UNCHANGED <<impl, rows, dirty, skip_debounce, flush_complete, lock, df,
                   tmp, data, meta, meta_file, fl, fc_df, late, cyc>>

\* _cleanup: if thread.is_alive(): thread.join(timeout=2); returns when the
\* thread has ended or the timeout elapsed.  The owner is gone afterwards.
LF_join ==
    /\ impl = "LogFolder" /\ pc["caller"] = "join"
    /\ Goto("caller", "exited")
    /\ UNCHANGED <<impl, rows, dirty, stop, stop_at, skip_debounce, flush_complete, lock, df,
                   tmp, data, meta, meta_file, fl, fc_df, late, cyc>>

LF_caller ==
    \/ LF_add_row
    \/ LF_add_meta
    \/ LF_save_call
    \/ LF_save_body("caller")
    \/ LF_cleanup
    \/ LF_join

(***************************************************************************)
(* index.py: FileLock and LogIndex.  The processes of Procs work on one    *)
(* index path.  The lock is the Unix one: flock belongs to the open file,  *)
(* that is to the inode the lock path named when it was opened, and unlink *)
(* removes the name while open files keep the inode.                       *)
(***************************************************************************)
Upd(f, p, x) == [f EXCEPT ![p] = x]

\* The inode open(lock_path, "a+b") creates: one no name and no open file uses.
FreshInode(p) ==
    CHOOSE i \in Inodes :
        /\ i # lock_inode
        /\ \A q \in Procs : fd[q] # i
        /\ \A j \in Inodes :
              (j # lock_inode /\ \A q \in Procs : fd[q] # j) => i <= j

\* flock(LOCK_EX | LOCK_NB) fails with EAGAIN: another open file holds the inode.
Blocked(p) == \E q \in Procs : q # p /\ locked[q] /\ fd[q] = fd[p]

\* Processes whose assignment has not ended; with the writes already in the
\* file they stay within MaxWrites.
PendingSets == Cardinality({p \in Procs : iop[p].kind = "set"})

\* The operation has ended: back to the caller with result r.
IX_return(p, r) ==
    /\ ipc' = Upd(ipc, p, "idle")
    /\ ires' = Upd(ires, p, r)
    /\ iop' = Upd(iop, p, NoOp)
    /\ seen' = Upd(seen, p, {})

\* The fingerprint FileSnap takes of the file as it is now; every replacement
\* of the file changes it.
IX_fingerprint == ix_file.stamp

\* FileSnap.changed(): the file's fingerprint differs from the one held.
IX_changed(p) == isnap[p] # IX_fingerprint

\* LogIndex.__init__, lines 23-38: the path exists, or create is set, or
\* FileNotFoundError.
IX_init_exists(p, create) ==
    /\ ipc[p] = "new"
    /\ IF ix_file.st # "absent"
       THEN /\ ipc' = Upd(ipc, p, "init_load")
            /\ ires' = Upd(ires, p, "none")
            /\ UNCHANGED iop
       ELSE IF create
       THEN /\ ipc' = Upd(ipc, p, "init_open")
            /\ ires' = Upd(ires, p, "none")
            /\ iop' = Upd(iop, p, [NoOp EXCEPT !.kind = "create"])
       ELSE /\ ires[p] # "notfound"
            /\ ires' = Upd(ires, p, "notfound")
            /\ UNCHANGED <<ipc, iop>>
    /\ UNCHANGED <<fd, locked, lock_inode, iroot, isnap, ix_file, ix_tmp, seen,
                   unsaved>>

\* LogIndex.__init__, line 26: open(path, "w") creates the file or cuts the
\* existing one to nothing.
IX_init_open(p) ==
    /\ ipc[p] = "init_open"
    /\ ix_file' = TruncatedFile(ix_file)
    /\ ipc' = Upd(ipc, p, "init_dump")
    /\ UNCHANGED <<iop, fd, locked, lock_inode, iroot, isnap, ires, ix_tmp,
                   seen, unsaved>>

\* LogIndex.__init__, lines 27-36: json.dump of the default record into the
\* file opened at line 26; if a save has replaced the path since, the write
\* goes to the unlinked file.
IX_init_dump(p) ==
    /\ ipc[p] = "init_dump"
    /\ IF iop[p].exc = "unlinked"
       THEN UNCHANGED <<ix_file, seen>>
       ELSE /\ ix_file' = DefaultFile(ix_file)
            /\ seen' = [q \in Procs |->
                   IF iop[q].kind = "get"
                   THEN seen[q] \cup {ZeroRec[iop[q].k]} ELSE seen[q]]
    /\ iop' = Upd(iop, p, [NoOp EXCEPT !.kind = "create"])
    /\ ipc' = Upd(ipc, p, "init_load")
    /\ UNCHANGED <<fd, locked, lock_inode, iroot, isnap, ires, ix_tmp, unsaved>>

\* LogIndex.__init__, line 41: self.root = self.load(); json.load raises on
\* a file that is not a whole record.
IX_init_load(p) ==
    /\ ipc[p] = "init_load"
    /\ IF ix_file.st = "full"
       THEN /\ iroot' = Upd(iroot, p, ix_file.rec)
            /\ ipc' = Upd(ipc, p, "init_snap")
            /\ UNCHANGED ires
       ELSE /\ ires' = Upd(ires, p, "raised")
            /\ ipc' = Upd(ipc, p, "new")
            /\ UNCHANGED iroot
    /\ iop' = Upd(iop, p, NoOp)
    /\ UNCHANGED <<fd, locked, lock_inode, isnap, ix_file, ix_tmp, seen,
                   unsaved>>

\* LogIndex.__init__, line 42: self._snap = FileSnap(self.path)
IX_init_snap(p) ==
    /\ ipc[p] = "init_snap"
    /\ isnap' = Upd(isnap, p, IX_fingerprint)
    /\ ipc' = Upd(ipc, p, "idle")
    /\ UNCHANGED <<iop, fd, locked, lock_inode, iroot, ires, ix_file, ix_tmp,
                   seen, unsaved>>

\* index[k] is called.
IX_getitem(p, k) ==
    /\ ipc[p] = "idle"
    /\ ipc' = Upd(ipc, p, "reload")
    /\ iop' = Upd(iop, p, [NoOp EXCEPT !.kind = "get", !.k = k])
    /\ ires' = Upd(ires, p, "none")
    /\ seen' = Upd(seen, p, IF ix_file.st = "full" THEN {ix_file.rec[k]} ELSE {})
    /\ UNCHANGED <<fd, locked, lock_inode, iroot, isnap, ix_file, ix_tmp,
                   unsaved>>

\* index[k] = v is called.
IX_setitem(p, k, v) ==
    /\ ipc[p] = "idle"
    /\ ix_file.n + PendingSets < MaxWrites
    /\ ipc' = Upd(ipc, p, "reload")
    /\ iop' = Upd(iop, p, [NoOp EXCEPT !.kind = "set", !.k = k, !.v = v])
    /\ ires' = Upd(ires, p, "none")
    /\ UNCHANGED <<fd, locked, lock_inode, iroot, isnap, ix_file, ix_tmp, seen,
                   unsaved>>

\* What __getitem__ and __setitem__ do after reload() with the record root:
\* the read returns root[k]; the assignment sets root[k] and goes on to save().
IX_after_reload(p, root) ==
    IF iop[p].kind = "get"
    THEN /\ IX_return(p, "ok")
         /\ iroot' = Upd(iroot, p, root)
    ELSE /\ iroot' = Upd(iroot, p, [root EXCEPT ![iop[p].k] = iop[p].v])
         /\ ipc' = Upd(ipc, p, "open")
         /\ UNCHANGED <<ires, iop, seen>>

\* LogIndex.reload: if self._snap.changed(): ...
IX_reload(p) ==
    /\ ipc[p] = "reload"
    /\ IF IX_changed(p)
       THEN /\ isnap' = Upd(isnap, p, IX_fingerprint)
            /\ ipc' = Upd(ipc, p, "load")
            /\ UNCHANGED <<iroot, ires, iop, seen, unsaved>>
       ELSE /\ IX_after_reload(p, iroot[p])
            /\ UNCHANGED unsaved
            /\ UNCHANGED isnap
    /\ UNCHANGED <<fd, locked, lock_inode, ix_file, ix_tmp>>

\* LogIndex.reload: ... self.root = self.load()
IX_load(p) ==
    /\ ipc[p] = "load"
    /\ IF ix_file.st = "full"
       THEN /\ IX_after_reload(p, ix_file.rec)
            /\ unsaved' = Upd(unsaved, p, FALSE)
       ELSE /\ IX_return(p, "raised")
            /\ UNCHANGED <<iroot, unsaved>>
    /\ UNCHANGED <<fd, locked, lock_inode, isnap, ix_file, ix_tmp>>

\* with FileLock(path, delete_on_release=dor): used directly.
FL_with(p, dor) ==
    /\ ipc[p] = "idle"
    /\ ipc' = Upd(ipc, p, "open")
    /\ iop' = Upd(iop, p, [NoOp EXCEPT !.kind = "lock", !.dor = dor])
    /\ ires' = Upd(ires, p, "none")
    /\ UNCHANGED <<fd, locked, lock_inode, iroot, isnap, ix_file, ix_tmp, seen,
                   unsaved>>

\* FileLock.acquire: self._file = open(lock_path, "a+b")
FL_acquire_open(p) ==
    /\ ipc[p] = "open"
    /\ LET i == IF lock_inode # 0 THEN lock_inode ELSE FreshInode(p)
       IN  /\ fd' = Upd(fd, p, i)
           /\ lock_inode' = i
    /\ ipc' = Upd(ipc, p, "flock")
    /\ UNCHANGED <<iop, locked, iroot, isnap, ires, ix_file, ix_tmp, seen,
                   unsaved>>

\* FileLock.acquire: flock succeeds, return.
FL_acquire_flock(p) ==
    /\ ipc[p] = "flock"
    /\ ~Blocked(p)
    /\ locked' = Upd(locked, p, TRUE)
    /\ ipc' = Upd(ipc, p, "held")
    /\ UNCHANGED <<iop, fd, lock_inode, iroot, isnap, ires, ix_file, ix_tmp,
                   seen, unsaved>>

\* FileLock.acquire that returns at the deadline as though it had the lock.
FL_acquire_timeout_returns(p) ==
    /\ ipc[p] = "flock"
    /\ Blocked(p)
    /\ ipc' = Upd(ipc, p, "held")
    /\ UNCHANGED <<iop, fd, locked, lock_inode, iroot, isnap, ires, ix_file,
                   ix_tmp, seen, unsaved>>

\* FileLock.acquire: flock fails after the deadline, TimeoutError.  __exit__
\* does not run; the open file that is dropped holds no lock.
FL_acquire_timeout(p) ==
    /\ ipc[p] = "flock"
    /\ Blocked(p)
    /\ fd' = Upd(fd, p, 0)
    /\ IX_return(p, "timeout")
    /\ unsaved' = Upd(unsaved, p, unsaved[p] \/ iop[p].kind = "set")
    /\ UNCHANGED <<locked, lock_inode, iroot, isnap, ix_file, ix_tmp>>

\* LogIndex.save: write the record to the temporary file; json.dump may raise.
IX_save_dump(p) ==
    /\ ipc[p] = "held"
    /\ iop[p].kind = "set"
    /\ \/ /\ ix_tmp' = FullTmp(iroot[p])
          /\ ipc' = Upd(ipc, p, "replace")
          /\ UNCHANGED iop
       \/ /\ ix_tmp' = PartialTmp
          /\ ipc' = Upd(ipc, p, "unlock")
          /\ iop' = Upd(iop, p, [iop[p] EXCEPT !.exc = "raised"])
    /\ UNCHANGED <<fd, locked, lock_inode, iroot, isnap, ires, ix_file, seen,
                   unsaved>>

\* LogIndex.save: tmp.replace(path)
IX_save_replace(p) ==
    /\ ipc[p] = "replace"
    /\ ipc' = Upd(ipc, p, "unlock")
    /\ IF ix_tmp.st = "absent"
       THEN /\ iop' = Upd(iop, p, [iop[p] EXCEPT !.exc = "raised"])
            /\ UNCHANGED <<ix_file, ix_tmp, seen, unsaved>>
       ELSE /\ ix_file' = [st |-> ix_tmp.st, rec |-> ix_tmp.rec,
                              stamp |-> NextStamp, n |-> ix_file.n + 1]
            /\ ix_tmp' = NoTmp
            /\ seen' = [q \in Procs |->
                   IF iop[q].kind = "get" /\ ix_tmp.st = "full"
                   THEN seen[q] \cup {ix_tmp.rec[iop[q].k]} ELSE seen[q]]
            /\ unsaved' = Upd(unsaved, p, unsaved[p] /\ ix_tmp # FullTmp(iroot[p]))
            /\ iop' = [q \in Procs |->
                   IF ipc[q] = "init_dump"
                   THEN [iop[q] EXCEPT !.exc = "unlinked"] ELSE iop[q]]
    /\ UNCHANGED <<fd, locked, lock_inode, iroot, isnap, ires>>

\* The section protected by a FileLock used directly: it ends or it raises.
FL_body(p) ==
    /\ ipc[p] = "held"
    /\ iop[p].kind = "lock"
    /\ \E exc \in {"none", "raised"} :
          iop' = Upd(iop, p, [iop[p] EXCEPT !.exc = exc])
    /\ ipc' = Upd(ipc, p, "unlock")
    /\ UNCHANGED <<fd, locked, lock_inode, iroot, isnap, ires, ix_file, ix_tmp,
                   seen, unsaved>>

\* FileLock.__exit__ calls release() only when the section ended normally.
FL_exit_on_success(exc) == exc = "none"

\* FileLock.__exit__ calls release() whatever way the section ended.
FL_exit(exc) == TRUE

\* FileLock.release: flock(LOCK_UN), then self._file.close()
FL_release_unlock(p) ==
    /\ ipc[p] = "unlock"
    /\ IF FL_exit(iop[p].exc)
       THEN /\ locked' = Upd(locked, p, FALSE)
            /\ fd' = Upd(fd, p, 0)
       ELSE UNCHANGED <<locked, fd>>
    /\ ipc' = Upd(ipc, p, "unlink")
    /\ UNCHANGED <<iop, lock_inode, iroot, isnap, ires, ix_file, ix_tmp, seen,
                   unsaved>>

\* FileLock.release: if delete_on_release and the path exists, unlink it;
\* then the scoped section is left.
FL_release_unlink(p) ==
    /\ ipc[p] = "unlink"
    /\ lock_inode' = IF FL_exit(iop[p].exc) /\ iop[p].dor THEN 0 ELSE lock_inode
    /\ IX_return(p, IF iop[p].exc = "raised" THEN "raised" ELSE "ok")
    /\ unsaved' = Upd(unsaved, p,
           unsaved[p] \/ (iop[p].kind = "set" /\ iop[p].exc = "raised"))
    /\ UNCHANGED <<fd, locked, iroot, isnap, ix_file, ix_tmp>>

\* Processes that take the lock of one path directly; no LogIndex, no writer.
LockInit ==
    WInit({"FileLock"}) /\ IInit("idle") /\ NInit({}, {}) /\ BInit /\ XInit /\ YInit

LockNext ==
    \/ \E p \in Procs, dor \in BOOLEAN : FL_with(p, dor) /\ UNCHANGED <<wvars, nvars, bvars, xvars, yvars>>
    \/ \E p \in Procs : FL_acquire_open(p) /\ UNCHANGED <<wvars, nvars, bvars, xvars, yvars>>
    \/ \E p \in Procs : FL_acquire_flock(p) /\ UNCHANGED <<wvars, nvars, bvars, xvars, yvars>>
    \/ \E p \in Procs : FL_acquire_timeout(p) /\ UNCHANGED <<wvars, nvars, bvars, xvars, yvars>>
    \/ \E p \in Procs : FL_body(p) /\ UNCHANGED <<wvars, nvars, bvars, xvars, yvars>>
    \/ \E p \in Procs : FL_release_unlock(p) /\ UNCHANGED <<wvars, nvars, bvars, xvars, yvars>>
    \/ \E p \in Procs : FL_release_unlink(p) /\ UNCHANGED <<wvars, nvars, bvars, xvars, yvars>>

LockSpec == LockInit /\ [][LockNext]_vars

\* Processes that each open a LogIndex on one path; no writer.
IdxInit ==
    WInit({"LogIndex"}) /\ IInit("new") /\ NInit({}, {}) /\ BInit /\ XInit /\ YInit

IdxNext ==
    \/ \E p \in Procs, create \in BOOLEAN :
          IX_init_exists(p, create) /\ UNCHANGED <<wvars, nvars, bvars, xvars, yvars>>
    \/ \E p \in Procs : IX_init_open(p) /\ UNCHANGED <<wvars, nvars, bvars, xvars, yvars>>
    \/ \E p \in Procs : IX_init_dump(p) /\ UNCHANGED <<wvars, nvars, bvars, xvars, yvars>>
    \/ \E p \in Procs : IX_init_load(p) /\ UNCHANGED <<wvars, nvars, bvars, xvars, yvars>>
    \/ \E p \in Procs : IX_init_snap(p) /\ UNCHANGED <<wvars, nvars, bvars, xvars, yvars>>
    \/ \E p \in Procs, k \in Keys : IX_getitem(p, k) /\ UNCHANGED <<wvars, nvars, bvars, xvars, yvars>>
    \/ \E p \in Procs, k \in Keys, v \in Vals :
          IX_setitem(p, k, v) /\ UNCHANGED <<wvars, nvars, bvars, xvars, yvars>>
    \/ \E p \in Procs : IX_reload(p) /\ UNCHANGED <<wvars, nvars, bvars, xvars, yvars>>
    \/ \E p \in Procs : IX_load(p) /\ UNCHANGED <<wvars, nvars, bvars, xvars, yvars>>
    \/ \E p \in Procs : FL_acquire_open(p) /\ UNCHANGED <<wvars, nvars, bvars, xvars, yvars>>
    \/ \E p \in Procs : FL_acquire_flock(p) /\ UNCHANGED <<wvars, nvars, bvars, xvars, yvars>>
    \/ \E p \in Procs : FL_acquire_timeout(p) /\ UNCHANGED <<wvars, nvars, bvars, xvars, yvars>>
    \/ \E p \in Procs : IX_save_dump(p) /\ UNCHANGED <<wvars, nvars, bvars, xvars, yvars>>
    \/ \E p \in Procs : IX_save_replace(p) /\ UNCHANGED <<wvars, nvars, bvars, xvars, yvars>>
    \/ \E p \in Procs : FL_release_unlock(p) /\ UNCHANGED <<wvars, nvars, bvars, xvars, yvars>>
    \/ \E p \in Procs : FL_release_unlink(p) /\ UNCHANGED <<wvars, nvars, bvars, xvars, yvars>>

IdxSpec == IdxInit /\ [][IdxNext]_vars

(***************************************************************************)
(* LogFolder.new (logfolder.py 82-97) and the path branch of               *)
(* LogFolder.__init__ (44-54), run by the processes Procs on one parent    *)
(* directory.  Entry names are the integers their decimal names denote; an *)
(* entry whose name is not decimal is skipped by the scan and can never be *)
(* str(new_index), so it is left out.  Entries are only added.             *)
(***************************************************************************)

\* max((int(entry.name) for ... if entry.is_dir() and entry.name.isdecimal()),
\* default=-1)
max_index(ds) == IF ds = {} THEN -1 ELSE CHOOSE m \in ds : \A d \in ds : d <= m

\* return cls(new_folder): the call hands back a LogFolder bound to new_folder.
NF_return(p) ==
    /\ npc' = Upd(npc, p, "done")
    /\ returned' = returned \cup {new_index[p]}

\* new(): scan the parent; new_index = max_index + 1.
NF_scan(p) ==
    /\ npc[p] \in {"idle", "done"}
    /\ ncalls[p] < MaxNew
    /\ ncalls' = Upd(ncalls, p, ncalls[p] + 1)
    /\ new_index' = Upd(new_index, p, max_index(dirs) + 1)
    /\ scanned' = Upd(scanned, p, dirs)
    /\ npc' = Upd(npc, p, "loop")
    /\ UNCHANGED <<dirs, files, returned>>

\* A loop that tests nothing: the index after the scan is taken as it is.
NF_exists_unchecked(p) ==
    /\ npc[p] = "loop"
    /\ npc' = Upd(npc, p, "init")
    /\ UNCHANGED <<dirs, files, new_index, scanned, returned, ncalls>>

\* while (parent_path / str(new_index)).exists(): new_index += 1
NF_exists(p) ==
    /\ npc[p] = "loop"
    /\ IF new_index[p] \in dirs \cup files
          THEN /\ new_index' = Upd(new_index, p, new_index[p] + 1)
               /\ npc' = npc
          ELSE /\ npc' = Upd(npc, p, "init")
               /\ new_index' = new_index
    /\ UNCHANGED <<dirs, files, scanned, returned, ncalls>>

\* __init__: if self.path.exists() and self.path.is_dir(): load what is
\* there (nothing need be there) and the instance is bound; elif create: ...
NF_init_exists(p) ==
    /\ npc[p] = "init"
    /\ IF new_index[p] \in dirs
          THEN NF_return(p)
          ELSE npc' = Upd(npc, p, "mkdir") /\ returned' = returned
    /\ UNCHANGED <<dirs, files, new_index, scanned, ncalls>>

\* self.path.mkdir(parents=True, exist_ok=True): FileExistsError only when
\* the path is there and is not a directory.
NF_mkdir(p) ==
    /\ npc[p] = "mkdir"
    /\ IF new_index[p] \in files
          THEN npc' = Upd(npc, p, "idle") /\ UNCHANGED <<dirs, returned>>
          ELSE dirs' = dirs \cup {new_index[p]} /\ NF_return(p)
    /\ UNCHANGED <<files, new_index, scanned, ncalls>>

\* Processes that each call LogFolder.new on one parent directory, which
\* holds any directories and other entries with names up to MaxDir.
NewInit ==
    /\ WInit({"LogFolder.new"}) /\ IInit("new") /\ BInit /\ XInit /\ YInit
    /\ \E ds \in SUBSET (0..MaxDir) :
          \E fs \in SUBSET ((0..MaxDir) \ ds) : NInit(ds, fs)

NewNext ==
    \/ \E p \in Procs : NF_scan(p) /\ UNCHANGED <<wvars, ivars, bvars, xvars, yvars>>
    \/ \E p \in Procs : NF_exists(p) /\ UNCHANGED <<wvars, ivars, bvars, xvars, yvars>>
    \/ \E p \in Procs : NF_init_exists(p) /\ UNCHANGED <<wvars, ivars, bvars, xvars, yvars>>
    \/ \E p \in Procs : NF_mkdir(p) /\ UNCHANGED <<wvars, ivars, bvars, xvars, yvars>>

NewSpec == NewInit /\ [][NewNext]_vars

(***************************************************************************)
(* The row buffer of a LogFolder (logfolder.py 99-136): add_row, df and    *)
(* _flush_rec_to_segs, as the calls of one thread at a time.  A row is     *)
(* known by the number id it was inserted as and the keys it has a value   *)
(* for (has); its cell under any other column is null.  A table is its     *)
(* columns in order and its rows in order.  The keyword arguments of a     *)
(* call are the keys in the order written and, per key, the length of the  *)
(* sequence passed, -1 for a scalar.                                       *)
(***************************************************************************)
Cols == {"x", "y"}
Range(s) == {s[i] : i \in DOMAIN s}
KeySeqs ==
    {s \in UNION {[1..n -> Cols] : n \in 1..Cardinality(Cols)} :
        \A i, j \in DOMAIN s : s[i] = s[j] => i = j}
Kwargs ==
    UNION {{[keys |-> ks, lens |-> ls] : ls \in [Range(ks) -> -1..MaxLen]} :
              ks \in KeySeqs}

\* The columns of a, then those of b that a does not have.
union_cols(a, b) == a \o SelectSeq(b, LAMBDA k : k \notin Range(a))

\* The keys of the key sequences kss in the order first met.
RECURSIVE first_seen(_)
first_seen(kss) ==
    IF kss = <<>> THEN <<>>
    ELSE union_cols(first_seen(SubSeq(kss, 1, Len(kss) - 1)), kss[Len(kss)])

\* A from_records that takes the columns from the first record only.
from_records_first_keys(recs) ==
    [cols |-> recs[1].keys,
     rows |-> [i \in DOMAIN recs |->
                 [id |-> recs[i].id,
                  has |-> Range(recs[i].keys) \cap Range(recs[1].keys)]]]

\* pd.DataFrame.from_records(list of dicts): one row per dict, the columns
\* are the keys of the dicts in the order first met, absent cells are null.
from_records(recs) ==
    [cols |-> first_seen([i \in DOMAIN recs |-> recs[i].keys]),
     rows |-> [i \in DOMAIN recs |->
                 [id |-> recs[i].id, has |-> Range(recs[i].keys)]]]

\* pd.concat(frames): the rows of the frames one after the other; the columns
\* are the union of theirs in the order first met (join="outer", sort=False).
RECURSIVE concat(_)
concat(frames) ==
    IF frames = <<>> THEN [cols |-> <<>>, rows |-> <<>>]
    ELSE LET head == concat(SubSeq(frames, 1, Len(frames) - 1))
             last == frames[Len(frames)]
         IN  [cols |-> union_cols(head.cols, last.cols),
              rows |-> head.rows \o last.rows]

\* is_multi_row: the keys whose value has a length and is not a string.
is_multi_row(kw) == {k \in Range(kw.keys) : kw.lens[k] >= 0}

\* pd.DataFrame(kwargs) raises ValueError unless all sequences have one length.
Mismatched(kw) == \E j, k \in is_multi_row(kw) : kw.lens[j] # kw.lens[k]

\* pd.DataFrame(kwargs): as many rows as the sequences are long, scalars
\* repeated; the columns in the order of the keyword arguments.
DataFrame(kw, first) ==
    LET n == kw.lens[CHOOSE k \in is_multi_row(kw) : TRUE]
    IN  [cols |-> kw.keys,
         rows |-> [i \in 1..n |-> [id |-> first + i - 1, has |-> Range(kw.keys)]]]

\* The segments after _flush_rec_to_segs() (_records is then empty).
flush_rec_to_segs(recs, frames) ==
    IF recs # <<>> THEN Append(frames, from_records(recs)) ELSE frames

\* The table the df property returns.
df_table(recs, frames) == concat(flush_rec_to_segs(recs, frames))

\* The number the next inserted row gets.
NextId == IF calls = <<>> THEN 1 ELSE calls[Len(calls)].first + calls[Len(calls)].n

\* The call is entered in the history with the rows it inserted.
Called(kw, n) ==
    calls' = Append(calls, [keys |-> kw.keys, n |-> n, first |-> NextId,
                            vec |-> is_multi_row(kw) # {}])

\* add_row with sequences of different lengths that marks the writer dirty
\* before it builds the frame.
BF_add_row_raises_marked(kw) ==
    /\ records' = <<>>
    /\ segs' = flush_rec_to_segs(records, segs)
    /\ dirty' = TRUE
    /\ bres' = [res |-> "raised", cols |-> <<>>, rows |-> <<>>]
    /\ UNCHANGED calls

\* add_row(**kwargs) with sequences of different lengths: the pending rows
\* have been moved to a segment when pd.DataFrame(kwargs) raises ValueError;
\* the lines after it are not reached.
BF_add_row_raises(kw) ==
    /\ records' = <<>>
    /\ segs' = flush_rec_to_segs(records, segs)
    /\ bres' = [res |-> "raised", cols |-> <<>>, rows |-> <<>>]
    /\ UNCHANGED <<dirty, calls>>

\* A vector insertion that leaves the pending rows where they are.
BF_add_row_vector_unflushed(kw) ==
    /\ segs' = Append(segs, DataFrame(kw, NextId))
    /\ Called(kw, Len(DataFrame(kw, NextId).rows))
    /\ dirty' = TRUE
    /\ bres' = [res |-> "added", cols |-> <<>>, rows |-> <<>>]
    /\ UNCHANGED records

\* add_row(**kwargs) with sequences of one length: flush the pending rows,
\* append the new segment, set _dirty.
BF_add_row_vector(kw) ==
    /\ records' = <<>>
    /\ segs' = Append(flush_rec_to_segs(records, segs), DataFrame(kw, NextId))
    /\ Called(kw, Len(DataFrame(kw, NextId).rows))
    /\ dirty' = TRUE
    /\ bres' = [res |-> "added", cols |-> <<>>, rows |-> <<>>]

\* add_row(**kwargs) with scalars only: the row joins the pending rows.
BF_add_row_scalar(kw) ==
    /\ records' = Append(records, [id |-> NextId, keys |-> kw.keys])
    /\ Called(kw, 1)
    /\ dirty' = TRUE
    /\ bres' = [res |-> "added", cols |-> <<>>, rows |-> <<>>]
    /\ UNCHANGED segs

\* add_row(**kwargs)
BF_add_row(kw) ==
    /\ Len(calls) < MaxCalls
    /\ IF is_multi_row(kw) = {} THEN BF_add_row_scalar(kw)
       ELSE IF Mismatched(kw) THEN BF_add_row_raises(kw)
       ELSE BF_add_row_vector(kw)

\* The df property: flush the pending rows; no segment: warn and return an
\* empty table; otherwise the segments become the one table returned.
BF_df ==
    LET frames == flush_rec_to_segs(records, segs)
    IN  /\ records' = <<>>
        /\ IF Len(frames) = 0
              THEN /\ segs' = frames
                   /\ bres' = [res |-> "warned", cols |-> <<>>, rows |-> <<>>]
              ELSE /\ segs' = <<concat(frames)>>
                   /\ bres' = [res |-> "ok", cols |-> concat(frames).cols,
                                 rows |-> concat(frames).rows]
        /\ UNCHANGED <<dirty, calls>>

\* The writer's self._dirty.clear().
BF_clear ==
    /\ dirty
    /\ dirty' = FALSE
    /\ UNCHANGED bvars

\* The writer's variables but _dirty.
wrest == <<impl, pc, rows, stop, skip_debounce, flush_complete, lock, df,
           tmp, data, meta, meta_file, fl, fc_df, late, cyc, stop_at>>

\* One LogFolder on a new folder, its rows added and its table read.
BufInit ==
    WInit({"RowBuffer"}) /\ IInit("new") /\ NInit({}, {}) /\ BInit /\ XInit /\ YInit

BufNext ==
    \/ \E kw \in Kwargs : BF_add_row(kw) /\ UNCHANGED <<wrest, ivars, nvars, xvars, yvars>>
    \/ BF_df /\ UNCHANGED <<wrest, ivars, nvars, xvars, yvars>>
    \/ BF_clear /\ UNCHANGED <<wrest, ivars, nvars, xvars, yvars>>

BufSpec == BufInit /\ [][BufNext]_vars

(***************************************************************************)
(* The row buffer together with its data file (logfolder.py 44-49,         *)
(* 184-192): save() writes the table df returns, and constructing a        *)
(* LogFolder on the existing folder loads the file as the one segment.     *)
(***************************************************************************)

\* DataFrame.to_parquet(path, index=False): the file holds the columns and
\* the rows of the table; the index is not written.
to_parquet(t) == [st |-> "full", cols |-> t.cols, rows |-> t.rows]

\* pd.read_parquet(path): the table of the file.
read_parquet(f) == [cols |-> f.cols, rows |-> f.rows]

\* save(force): nothing when _dirty is clear and force is not given;
\* otherwise self.df.to_parquet(self.data_path, index=False).  The df
\* property flushes the pending rows and merges the segments.
BF_save(force) ==
    LET frames == flush_rec_to_segs(records, segs)
    IN  /\ dirty \/ force
        /\ records' = <<>>
        /\ segs' = IF Len(frames) <= 1 THEN frames ELSE <<concat(frames)>>
        /\ bfile' = to_parquet(concat(frames))
        /\ bres' = [res |-> "saved", cols |-> <<>>, rows |-> <<>>]
        /\ UNCHANGED <<dirty, calls, loaded, wpos, wdf, cpos, ckw, yvars>>

\* A constructor that does not read the data file.
BF_reopen_unloaded ==
    /\ bfile.st = "full"
    /\ records' = <<>>
    /\ segs' = <<>>
    /\ dirty' = FALSE
    /\ loaded' = 0
    /\ bres' = [res |-> "opened", cols |-> <<>>, rows |-> <<>>]
    /\ UNCHANGED <<calls, bfile, wpos, wdf, cpos, ckw, yvars>>

\* LogFolder(path) on the existing folder, the earlier instance being gone:
\* _records = [], _dirty clear, and if self.data_path.exists():
\* self._segs = [pd.read_parquet(self.data_path)].
BF_reopen ==
    /\ bfile.st = "full"
    /\ records' = <<>>
    /\ segs' = <<read_parquet(bfile)>>
    /\ dirty' = FALSE
    /\ loaded' = Len(bfile.rows)
    /\ bres' = [res |-> "opened", cols |-> <<>>, rows |-> <<>>]
    /\ UNCHANGED <<calls, bfile, wpos, wdf, cpos, ckw, yvars>>

ReopenInit ==
    WInit({"LogFolder.reopen"}) /\ IInit("new") /\ NInit({}, {}) /\ BInit /\ XInit /\ YInit

ReopenNext ==
    \/ \E kw \in Kwargs :
          BF_add_row(kw) /\ UNCHANGED <<wrest, ivars, nvars, xvars, yvars>>
    \/ BF_df /\ UNCHANGED <<wrest, ivars, nvars, xvars, yvars>>
    \/ BF_clear /\ UNCHANGED <<wrest, ivars, nvars, xvars, yvars>>
    \/ \E force \in BOOLEAN : BF_save(force) /\ UNCHANGED <<wrest, ivars, nvars>>
    \/ BF_reopen /\ UNCHANGED <<wrest, ivars, nvars>>

ReopenSpec == ReopenInit /\ [][ReopenNext]_vars

(***************************************************************************)
(* The writer thread of a LogFolder and the thread of its caller on the    *)
(* one row buffer (logfolder.py 99-136, 184-199).  save() reads the table  *)
(* through the df property, so the writer runs _flush_rec_to_segs and the  *)
(* merge of the segments while the caller runs add_row; each read or       *)
(* write of _records or _segs is one step.  The column names play no part  *)
(* here: the caller's rows have the one key "x".                           *)
(***************************************************************************)
RaceKwargs == {kw \in Kwargs : kw.keys = <<"x">>}

\* _writer: self._dirty.wait(); time.sleep(SAVE_INTERVAL)
RW_wait ==
    /\ wpos = "wait" /\ dirty
    /\ wpos' = "clear"
    /\ UNCHANGED <<dirty, records, segs, calls, bres, bfile, wdf>>

\* _writer: self._dirty.clear()
RW_clear ==
    /\ wpos = "clear"
    /\ dirty' = FALSE
    /\ wpos' = "save"
    /\ UNCHANGED <<records, segs, calls, bres, bfile, wdf>>

\* save(): if not self._dirty.is_set() and not force: return
RW_save ==
    /\ wpos = "save"
    /\ wpos' = IF dirty THEN "flush" ELSE "wait"
    /\ UNCHANGED <<dirty, records, segs, calls, bres, bfile, wdf>>

\* df -> _flush_rec_to_segs: if self._records:
\*     self._segs.append(pd.DataFrame.from_records(self._records))
RW_flush ==
    /\ wpos = "flush"
    /\ IF records # <<>>
          THEN segs' = Append(segs, from_records(records)) /\ wpos' = "reset"
          ELSE segs' = segs /\ wpos' = "concat"
    /\ UNCHANGED <<dirty, records, calls, bres, bfile, wdf>>

\* _flush_rec_to_segs: self._records = []
RW_reset ==
    /\ wpos = "reset"
    /\ records' = <<>>
    /\ wpos' = "concat"
    /\ UNCHANGED <<dirty, segs, calls, bres, bfile, wdf>>

\* df: no segment: an empty table; one: df = self._segs[0];
\* otherwise df = pd.concat(self._segs)
RW_concat ==
    /\ wpos = "concat"
    /\ wdf' = concat(segs)
    /\ wpos' = IF Len(segs) > 1 THEN "assign" ELSE "to_parquet"
    /\ UNCHANGED <<dirty, records, segs, calls, bres, bfile>>

\* df: self._segs = [df]
RW_assign ==
    /\ wpos = "assign"
    /\ segs' = <<wdf>>
    /\ wpos' = "to_parquet"
    /\ UNCHANGED <<dirty, records, calls, bres, bfile, wdf>>

\* save(): self.df.to_parquet(self.data_path, index=False)
RW_to_parquet ==
    /\ wpos = "to_parquet"
    /\ bfile' = to_parquet(wdf)
    /\ wpos' = "wait"
    /\ UNCHANGED <<dirty, records, segs, calls, bres, wdf>>

\* add_row(**kwargs) is called: scalars: self._records.append(kwargs);
\* sequences: _flush_rec_to_segs() comes first.
RC_add_row(kw) ==
    /\ cpos = "idle"
    /\ Len(calls) < MaxCalls
    /\ ckw' = kw
    /\ IF is_multi_row(kw) = {}
          THEN /\ records' = Append(records, [id |-> NextId, keys |-> kw.keys])
               /\ Called(kw, 1)
               /\ cpos' = "set_dirty"
               /\ segs' = segs
          ELSE /\ IF records # <<>>
                     THEN segs' = Append(segs, from_records(records))
                          /\ cpos' = "reset"
                     ELSE segs' = segs /\ cpos' = "append"
               /\ UNCHANGED <<records, calls>>
    /\ UNCHANGED <<dirty, bres>>

\* _flush_rec_to_segs in add_row: self._records = []
RC_reset ==
    /\ cpos = "reset"
    /\ records' = <<>>
    /\ cpos' = "append"
    /\ UNCHANGED <<dirty, segs, calls, bres, ckw>>

\* add_row: self._segs.append(pd.DataFrame(kwargs))
RC_append ==
    /\ cpos = "append"
    /\ segs' = Append(segs, DataFrame(ckw, NextId))
    /\ Called(ckw, Len(DataFrame(ckw, NextId).rows))
    /\ cpos' = "set_dirty"
    /\ UNCHANGED <<dirty, records, bres, ckw>>

\* add_row: self._dirty.set()
RC_set_dirty ==
    /\ cpos = "set_dirty"
    /\ dirty' = TRUE
    /\ cpos' = "idle"
    /\ UNCHANGED <<records, segs, calls, bres, ckw>>

RaceInit ==
    WInit({"LogFolder.df"}) /\ IInit("new") /\ NInit({}, {}) /\ BInit /\ XInit /\ YInit

RaceNext ==
    \/ RW_wait /\ UNCHANGED <<wrest, ivars, nvars, loaded, cpos, ckw, yvars>>
    \/ RW_clear /\ UNCHANGED <<wrest, ivars, nvars, loaded, cpos, ckw, yvars>>
    \/ RW_save /\ UNCHANGED <<wrest, ivars, nvars, loaded, cpos, ckw, yvars>>
    \/ RW_flush /\ UNCHANGED <<wrest, ivars, nvars, loaded, cpos, ckw, yvars>>
    \/ RW_reset /\ UNCHANGED <<wrest, ivars, nvars, loaded, cpos, ckw, yvars>>
    \/ RW_concat /\ UNCHANGED <<wrest, ivars, nvars, loaded, cpos, ckw, yvars>>
    \/ RW_assign /\ UNCHANGED <<wrest, ivars, nvars, loaded, cpos, ckw, yvars>>
    \/ RW_to_parquet /\ UNCHANGED <<wrest, ivars, nvars, loaded, cpos, ckw, yvars>>
    \/ \E kw \in RaceKwargs :
          RC_add_row(kw) /\ UNCHANGED <<wrest, ivars, nvars, bfile, loaded, wpos, wdf, yvars>>
    \/ RC_reset /\ UNCHANGED <<wrest, ivars, nvars, bfile, loaded, wpos, wdf, yvars>>
    \/ RC_append /\ UNCHANGED <<wrest, ivars, nvars, bfile, loaded, wpos, wdf, yvars>>
    \/ RC_set_dirty /\ UNCHANGED <<wrest, ivars, nvars, bfile, loaded, wpos, wdf, yvars>>

RaceSpec == RaceInit /\ [][RaceNext]_vars

----------------------------------------------------------------------------
(* The star and trash flags of one index.json, written and read through the *)
(* browser's index functions and through the properties of LogIndex.  One   *)
(* thread makes the calls, each a whole call.                               *)

\* The star counts the browser sets.
MaxStar == 2

\* int(value) of a JSON boolean (browser.py 131).
int(b) == IF b THEN 1 ELSE 0

\* _read_json_index: "star", else "starred" when "star" is missing, as an
\* integer; "trash", else "trashed" when "trash" is missing, as a boolean.
read_json_index(f) ==
    [star  |-> IF "star" \in f.keys THEN f.star
               ELSE IF "starred" \in f.keys THEN int(f.starred) ELSE 0,
     trash |-> IF "trash" \in f.keys THEN f.trash
               ELSE IF "trashed" \in f.keys THEN f.trashed ELSE FALSE]

\* _write_json_index: sets the keys "star" and "trash" of the record and
\* leaves every other key as it is.
write_json_index(f, i) ==
    [f EXCEPT !.keys = @ \cup {"star", "trash"}, !.star = i.star, !.trash = i.trash]

Read(api, field, s, t, w) ==
    [api |-> api, field |-> field, star |-> s, trash |-> t, wr |-> w]

\* _scan_directory: the browser reads the index file into the record's info.
BR_read_index_file ==
    /\ info' = read_json_index(flags)
    /\ fres' = Read("browser", "both", info'.star, info'.trash, fwr)
    /\ UNCHANGED <<flags, fwr>>

\* _set_record_star_count: no change when the count is the one held; else the
\* info is written, and _persist_index_info reads the file back.
BR_set_record_star_count(n) ==
    /\ info.star # n
    /\ flags' = write_json_index(flags, [info EXCEPT !.star = n])
    /\ info' = read_json_index(flags')
    /\ fwr' = [fwr EXCEPT !.star = [api |-> "browser", val |-> n]]
    /\ fres' = Read("browser", "both", info'.star, info'.trash, fwr')

\* _set_record_trash.
BR_set_record_trash(b) ==
    /\ info.trash # b
    /\ flags' = write_json_index(flags, [info EXCEPT !.trash = b])
    /\ info' = read_json_index(flags')
    /\ fwr' = [fwr EXCEPT !.trash = [api |-> "browser", val |-> int(b)]]
    /\ fres' = Read("browser", "both", info'.star, info'.trash, fwr')

\* LogIndex.starred (setter): self["starred"] = bool(value).
LI_starred_set(b) ==
    /\ flags' = [flags EXCEPT !.keys = @ \cup {"starred"}, !.starred = b]
    /\ fwr' = [fwr EXCEPT !.star = [api |-> "LogIndex", val |-> int(b)]]
    /\ UNCHANGED <<info, fres>>

\* LogIndex.trashed (setter): self["trashed"] = bool(value).
LI_trashed_set(b) ==
    /\ flags' = [flags EXCEPT !.keys = @ \cup {"trashed"}, !.trashed = b]
    /\ fwr' = [fwr EXCEPT !.trash = [api |-> "LogIndex", val |-> int(b)]]
    /\ UNCHANGED <<info, fres>>

\* LogIndex.starred (getter): self["starred"].
LI_starred_get ==
    /\ "starred" \in flags.keys
    /\ fres' = Read("LogIndex", "star", int(flags.starred), FALSE, fwr)
    /\ UNCHANGED <<flags, info, fwr>>

\* LogIndex.trashed (getter): self["trashed"].
LI_trashed_get ==
    /\ "trashed" \in flags.keys
    /\ fres' = Read("LogIndex", "trash", 0, flags.trashed, fwr)
    /\ UNCHANGED <<flags, info, fwr>>

FlagInit ==
    WInit({"LogIndex.flags"}) /\ IInit("new") /\ NInit({}, {}) /\ BInit /\ XInit /\ YInit

FlagNext ==
    \/ BR_read_index_file /\ UNCHANGED <<wvars, ivars, nvars, bvars, xvars, ovars>>
    \/ \E n \in 0..MaxStar :
          BR_set_record_star_count(n) /\ UNCHANGED <<wvars, ivars, nvars, bvars, xvars, ovars>>
    \/ \E b \in BOOLEAN :
          BR_set_record_trash(b) /\ UNCHANGED <<wvars, ivars, nvars, bvars, xvars, ovars>>
    \/ \E b \in BOOLEAN :
          LI_starred_set(b) /\ UNCHANGED <<wvars, ivars, nvars, bvars, xvars, ovars>>
    \/ \E b \in BOOLEAN :
          LI_trashed_set(b) /\ UNCHANGED <<wvars, ivars, nvars, bvars, xvars, ovars>>
    \/ LI_starred_get /\ UNCHANGED <<wvars, ivars, nvars, bvars, xvars, ovars>>
    \/ LI_trashed_get /\ UNCHANGED <<wvars, ivars, nvars, bvars, xvars, ovars>>

FlagSpec == FlagInit /\ [][FlagNext]_vars

----------------------------------------------------------------------------
(* The constructor of LogFolder on one path: the writer thread is started   *)
(* first, the path is looked at afterwards.  One thread makes the calls;    *)
(* no row is added, so _dirty is never set.                                 *)

\* The constructions one behaviour makes.
MaxOpen == 3

\* LogFolder(path, create) is called.
LO_call(create) ==
    /\ opc = "idle"
    /\ Len(othreads) < MaxOpen
    /\ oc' = create
    /\ opc' = "start"
    /\ ores' = "none"
    /\ UNCHANGED <<odir, othreads>>

\* __init__, lines 40-42: the thread is created with target self._writer
\* and started; the finalizer is registered.
LO_start_thread ==
    /\ opc = "start"
    /\ othreads' = Append(othreads, [pos |-> "loop", folder |-> "constructing"])
    /\ opc' = "check"
    /\ UNCHANGED <<oc, odir, ores>>

\* The fate of the folder whose construction ends: the caller holds it, or
\* the constructor raised and the caller holds nothing.
Ended(ts, fate) ==
    [i \in DOMAIN ts |->
        IF ts[i].folder = "constructing" THEN [ts[i] EXCEPT !.folder = fate]
        ELSE ts[i]]

\* __init__, lines 44-54: the directory exists and is loaded; or it is made;
\* or FileNotFoundError.
LO_check ==
    /\ opc = "check"
    /\ IF odir
       THEN /\ othreads' = Ended(othreads, "held")
            /\ ores' = "opened"
            /\ UNCHANGED odir
       ELSE IF oc
       THEN /\ odir' = TRUE
            /\ othreads' = Ended(othreads, "held")
            /\ ores' = "created"
       ELSE /\ othreads' = Ended(othreads, "failed")
            /\ ores' = "notfound"
            /\ UNCHANGED odir
    /\ opc' = "idle"
    /\ UNCHANGED oc

\* _writer, lines 195-196: while not self._stop.is_set(): self._dirty.wait();
\* the thread waits there for _dirty.
LO_writer(i) ==
    /\ i \in DOMAIN othreads
    /\ othreads[i].pos = "loop"
    /\ othreads' = [othreads EXCEPT ![i].pos = "wait_dirty"]
    /\ UNCHANGED <<opc, oc, odir, ores>>

\* The directory is removed from outside.
LO_rmtree ==
    /\ odir /\ opc = "idle"
    /\ odir' = FALSE
    /\ UNCHANGED <<opc, oc, othreads, ores>>

OpenInit ==
    WInit({"LogFolder.open"}) /\ IInit("new") /\ NInit({}, {}) /\ BInit /\ XInit /\ YInit

OpenNext ==
    \/ \E create \in BOOLEAN :
          LO_call(create) /\ UNCHANGED <<wvars, ivars, nvars, bvars, xvars, fvars>>
    \/ LO_start_thread /\ UNCHANGED <<wvars, ivars, nvars, bvars, xvars, fvars>>
    \/ LO_check /\ UNCHANGED <<wvars, ivars, nvars, bvars, xvars, fvars>>
    \/ \E i \in 1..MaxOpen :
          LO_writer(i) /\ UNCHANGED <<wvars, ivars, nvars, bvars, xvars, fvars>>
    \/ LO_rmtree /\ UNCHANGED <<wvars, ivars, nvars, bvars, xvars, fvars>>

OpenSpec == OpenInit /\ [][OpenNext]_vars

Next ==
    \/ DH_run /\ UNCHANGED <<ivars, nvars, bvars, xvars, yvars>>
    \/ DH_caller /\ UNCHANGED <<ivars, nvars, bvars, xvars, yvars>>
    \/ LF_writer /\ UNCHANGED <<ivars, nvars, bvars, xvars, yvars>>
    \/ LF_caller /\ UNCHANGED <<ivars, nvars, bvars, xvars, yvars>>

Spec == Init /\ [][Next]_vars

\* Scheduling: a thread that can take a step eventually takes one (the writer
\* thread; the caller's thread inside flush(), save() and the join), and a timed
\* wait ends when its event is set or its timeout has elapsed.  Nothing obliges
\* the caller to make a new call.
FairSpec ==
    /\ Spec
    /\ WF_wvars(DH_run)
    /\ WF_wvars(LF_writer)
    /\ WF_wvars(DH_flush_check)
    /\ WF_wvars(DH_flush_set_skip)
    /\ WF_wvars(DH_flush_wait)
    /\ WF_wvars(DH_join)
    /\ WF_wvars(LF_save_body("caller"))
    /\ WF_wvars(LF_join)

----------------------------------------------------------------------------
(* Properties.                                                              *)

\* The caller's last call was a flush() that has returned.
FlushReturned == fl.op = "flush" /\ fl.res \in {"nowait", "signalled", "timeout"}

\* The writer is parked in self._dirty.wait() with nothing pending, nobody
\* has asked it to stop and the caller is between calls.
Quiescent ==
    /\ pc["writer"] = "wait_dirty"
    /\ pc["caller"] = "idle"
    /\ ~dirty
    /\ ~stop

\* C1: a flush() issued while the writer is dirty and blocked in its wait for
\* the dirty signal or its debounce wait, once it has returned without an
\* error, leaves a data file on disk that holds exactly the rows that were in
\* the buffer when flush() was called.
C1_FlushRoundTrip ==
    ( /\ FlushReturned
      /\ fl.dirty /\ fl.waiting
      /\ ~fl.err
      /\ rows = fl.rows )
    => data = Full(fl.rows)

\* C1, for the returns released by the flush-complete signal only.
C1_SignalledRoundTrip ==
    ( /\ FlushReturned
      /\ fl.dirty /\ fl.waiting
      /\ fl.res = "signalled"
      /\ rows = fl.rows )
    => data = Full(fl.rows)

\* C2: the write whose completion signal releases a flush() took its snapshot
\* after the flush() call, so the snapshot holds every row added before it.
C2_FlushSnapshotAfterCall ==
    (fl.op = "flush" /\ fl.res = "signalled") => fl.snap >= fl.rows

\* C3: a flush() called with the dirty signal clear returns at once and every
\* row added before the call is then in the data file.
C3_CleanFlushIsDurable ==
    ( /\ FlushReturned
      /\ ~fl.dirty
      /\ fl.rows > 0 )
    => (fl.res = "nowait" /\ data.st = "full" /\ data.n >= fl.rows)

\* C4: a flush() whose wait for the flush-complete signal timed out reports an
\* error to its caller.
C4_TimeoutIsAnError ==
    (fl.op = "flush" /\ fl.res = "timeout") => fl.err

\* C5: every flush() call eventually returns, whatever the writer does.
C5_FlushReturns ==
    (pc["caller"] \in {"flush_check", "flush_set_skip", "flush_wait"}) ~> (pc["caller"] = "idle")

\* C5 witness: a flush() has come back from a writer that had crashed or stopped.
C5_Witness ==
    /\ FlushReturned
    /\ fl.res = "timeout"
    /\ pc["writer"] \in {"crashed", "stopped"}

\* A step of the call recorded in fl: its first step, or a later step of the
\* caller's thread inside the call.
CallStep ==
    \/ fl' # fl
    \/ pc["caller"] \notin {"idle", "join", "exited"} /\ pc'["caller"] # pc["caller"]

\* C6: a flush(), or a save() without force, called when nothing is dirty
\* changes neither the data file, the meta file, the row buffer nor the dirty
\* signal.
C6_CleanCallWritesNothing ==
    [][ ( /\ CallStep
          /\ fl'.op \in {"flush", "save"}
          /\ ~fl'.dirty /\ ~fl'.force )
        => UNCHANGED <<data, meta_file, tmp, rows, dirty>> ]_vars

\* C6 witness: a save() without force was called with rows in the buffer and
\* the dirty signal clear, and has returned.
C6_Witness ==
    /\ fl.op = "save" /\ fl.res = "skipped"
    /\ ~fl.dirty /\ ~fl.force
    /\ rows > 0

\* C7: once add_row has marked the writer dirty the background thread writes
\* the row to the data file without any flush() or save() by the caller; so
\* when the writer is parked again with nothing pending, the data file holds
\* every row of the buffer.
C7_BackgroundWriteHappens ==
    ( /\ impl = "LogFolder"
      /\ Quiescent
      /\ fl.op = "none"
      /\ rows > 0 )
    => data = Full(rows)

\* C8: the marks made before the writer clears the dirty signal collapse into
\* exactly one write, whose snapshot holds all the rows added by them: when
\* the writer is parked again, the cycle it has just ended did one write of
\* the whole buffer.
C8_MarksCollapseIntoOneWrite ==
    ( /\ impl = "LogFolder"
      /\ Quiescent
      /\ fl.op = "none"
      /\ late = 0
      /\ rows >= 2 )
    => (cyc = 1 /\ df = rows)

\* C9: a row added after the writer cleared the dirty signal is not lost: it
\* is in the snapshot being written or in the snapshot of one more write, so
\* when the writer is parked again with nothing pending the data file has it.
C9_LateMarkNotLost ==
    ( /\ Quiescent
      /\ fl.op = "none"
      /\ late > 0 )
    => (data.st = "full" /\ data.n >= late)

\* C10: the data path never holds a partially written file: it is absent or
\* holds one complete snapshot.
C10_DataFileAtomic ==
    data.st \in {"absent", "full"}

\* C11: a write that fails does not end the background thread: the thread is
\* never terminated by an I/O or serialisation error of a write.
C11_FailedWriteKeepsWriter ==
    pc["writer"] # "crashed"

\* C12: stop wakes a writer that is blocked waiting for the dirty signal: once
\* the stop flag is set and the stopper waits for (or has given up on) the
\* thread, the writer is not parked in self._dirty.wait() with nothing pending.
C12_StopWakesWriter ==
    ( /\ impl = "LogFolder"
      /\ stop
      /\ pc["caller"] \in {"join", "exited"} )
    => ~(pc["writer"] = "wait_dirty" /\ ~dirty)

\* The places of LogFolder._writer: before the dirty signal is cleared, and
\* inside the write of save().
LF_Waiting == {"loop", "wait_dirty", "sleep"}
LF_Writing == {"save_lock", "save_open_meta", "save_dump_meta", "save_df",
               "save_to_parquet", "save_finish"}

C13_WitnessInFlight ==
    /\ impl = "LogFolder" /\ stop /\ stop_at \in LF_Writing
    /\ pc["writer"] = "stopped"

\* C14: when the owner has been finalized, the rows that were added are in the
\* data file: the cleanup wrote what was pending before it stopped the writer.
C14_FinalizeWritesPending ==
    ( /\ impl = "LogFolder"
      /\ pc["caller"] = "exited"
      /\ rows > 0 )
    => data = Full(rows)

\* A process holds the FileLock from the return of acquire() to the unlock in
\* release().
Holds(p) == locked[p]

\* C15: FileLock gives mutual exclusion: under every interleaving of acquire
\* and release by the processes on one path, at most one of them holds the
\* lock at a time.
C15_MutualExclusion ==
    \A p, q \in Procs : (Holds(p) /\ Holds(q)) => p = q

\* C16: while A holds the FileLock of a path and keeps it, an acquire by B
\* on the same path does not succeed (B polls, then fails with TimeoutError),
\* and A still holds the lock.
C16_HeldLockRefusesAcquire ==
    [][\A p, q \in Procs :
          (p # q /\ Holds(q) /\ Holds(q)' /\ ipc[p] \in {"open", "flock"})
              => ~Holds(p)']_vars

\* C17: with delete_on_release=True the sidecar lock file exists on disk for
\* as long as the lock is held.
C17_SidecarExistsWhileHeld ==
    \A p \in Procs : (Holds(p) /\ iop[p].dor) => lock_inode # 0

\* C18: a scoped FileLock acquisition releases the lock on every exit path:
\* when the section is left, also by an exception, the lock is unlocked, the
\* handle closed and (if configured) the sidecar deleted; no process outside
\* a section holds the lock, so an acquire made when all others are outside
\* is not refused.
C18_ScopedReleaseOnEveryExit ==
    /\ [][\A p \in Procs :
             (ipc[p] = "unlink" /\ ipc'[p] = "idle")
                 => /\ ~locked'[p]
                    /\ fd'[p] = 0
                    /\ iop[p].dor => lock_inode' = 0]_vars
    /\ [](\A p \in Procs : ipc[p] = "idle" => (~locked[p] /\ fd[p] = 0))
    /\ [](\A p \in Procs :
             (ipc[p] = "flock" /\ \A q \in Procs \ {p} : ipc[q] = "idle")
                 => ~Blocked(p))

\* A section was left by an exception and another process holds the lock of
\* the path after it.
C18_Witness ==
    \E p \in Procs :
        /\ ipc[p] = "idle"
        /\ ires[p] = "raised"
        /\ \E q \in Procs \ {p} : Holds(q) /\ fd[q] = lock_inode

\* C19: read-through consistency: a read of key k through an instance that
\* holds no failed assignment of its own, made while the file is a whole
\* record, returns a value k had in the file at some moment of the read; so,
\* once a write of k through A has been completed, a later read of k through
\* B returns A's value, whatever B had loaded before.
C19_ReadThrough ==
    [][\A p \in Procs :
          (iop[p].kind = "get" /\ ires'[p] = "ok" /\ ~unsaved[p]
               /\ seen[p] # {})
              => iroot'[p][iop[p].k] \in seen[p]]_vars

\* C20: an assignment is a lock-protected read/modify/write: the save of an
\* assignment to one key leaves every other key of the file as it was, so
\* that after two concurrent assignments to different keys the file holds
\* both new values.
C20_SaveKeepsOtherKeys ==
    [][\A p \in Procs :
          (ipc[p] = "replace" /\ ipc'[p] = "unlock" /\ ix_file' # ix_file
                  /\ ~unsaved[p]
               /\ ix_file.st = "full")
              => /\ ix_file'.st = "full"
                 /\ \A k \in Keys \ {iop[p].k} :
                       ix_file'.rec[k] = ix_file.rec[k]]_vars

\* C21: a save() that cannot acquire the FileLock within its timeout fails
\* with TimeoutError and has touched neither the metadata file nor the
\* temporary file: a process in an assignment writes either of them only
\* while it holds the lock, and the step that raises TimeoutError ends the
\* call and writes nothing.
C21_TimedOutSaveWritesNothing ==
    [][\A p \in Procs :
          /\ (iop[p].kind = "set" /\ ipc'[p] # ipc[p] /\ ~Holds(p))
                 => (ix_file' = ix_file /\ ix_tmp' = ix_tmp)
          /\ (ires'[p] = "timeout" /\ ires[p] # "timeout")
                 => (ipc[p] = "flock" /\ ipc'[p] = "idle" /\ ~Holds(p)')]_vars

\* An assignment has ended with TimeoutError while another process was
\* inside its save.
C21_Witness ==
    \E p \in Procs :
        /\ ires[p] = "timeout"
        /\ unsaved[p]
        /\ \E q \in Procs \ {p} : Holds(q) /\ iop[q].kind = "set"

\* C22: every write of the metadata file, the initial creation by the
\* constructor included, is an atomic replace: at every moment the file, if
\* it exists, holds one whole record, so a reader that opens it without the
\* lock never finds it empty or partial.
C22_FileAlwaysWhole == ix_file.st # "partial"

\* C23: metadata round trip: the save of an assignment of v to key k, by an
\* instance that holds no failed assignment, leaves in the file the record
\* it held before with k set to v - the assigned value is there and every
\* other key keeps its previous value - and an instance opened afterwards
\* loads the record of the file unchanged.
C23_RoundTrip ==
    [][\A p \in Procs :
          /\ (ipc[p] = "replace" /\ ipc'[p] = "unlock" /\ ix_file' # ix_file
                  /\ ~unsaved[p]
                  /\ ix_file.st = "full")
                 => /\ ix_file'.st = "full"
                    /\ ix_file'.rec = [ix_file.rec EXCEPT ![iop[p].k] = iop[p].v]
          /\ (ipc[p] = "init_load" /\ ipc'[p] = "init_snap")
                 => iroot'[p] = ix_file.rec]_vars

\* C24: constructing a LogIndex on a path that does not exist with
\* create=false fails with FileNotFoundError and creates no file at that
\* path; with create=true on a missing path the constructor writes the
\* initial default record and loads it.
C24_MissingPath ==
    [][\A p \in Procs :
          /\ (ires'[p] = "notfound" /\ ires[p] # "notfound")
                 => /\ ix_file.st = "absent"
                    /\ ix_file' = ix_file /\ ix_tmp' = ix_tmp
                    /\ lock_inode' = lock_inode
                    /\ ipc'[p] = "new"
          /\ (ipc[p] = "init_dump" /\ ipc'[p] = "init_load"
                  /\ iop[p].exc # "unlinked")
                 => ix_file' = DefaultFile(ix_file)
          /\ (ipc[p] = "init_load" /\ iop[p].kind = "create"
                  /\ ipc'[p] # "init_load")
                 => (ipc'[p] = "init_snap" /\ iroot'[p] = ix_file.rec)]_vars

\* C25: reload() replaces the in-memory record with the file's content
\* exactly when the file's fingerprint differs from the one the instance
\* holds, discarding unsaved local mutations in that case; when the file is
\* unchanged it leaves the in-memory record, unsaved mutations included,
\* untouched; and a mutation that was not saved is invisible to the other
\* instances: only a save or the creation of the file changes the file.
\* (The assignment that follows the reload inside __setitem__ is allowed for.)
C25_ReloadFrame ==
    [][\A p \in Procs :
          LET assigned(r) == IF iop[p].kind = "set"
                             THEN [r EXCEPT ![iop[p].k] = iop[p].v] ELSE r
          IN  /\ (ipc[p] = "reload" /\ ipc'[p] # "reload"
                      /\ isnap[p] = ix_file.stamp)
                     => /\ ipc'[p] # "load"
                        /\ iroot'[p] = assigned(iroot[p])
                        /\ unsaved'[p] = unsaved[p]
              /\ (ipc[p] = "reload" /\ ipc'[p] # "reload"
                      /\ isnap[p] # ix_file.stamp)
                     => /\ ipc'[p] = "load"
                        /\ iroot'[p] = iroot[p]
              /\ (ipc[p] = "load" /\ ipc'[p] # "load")
                     => /\ iroot'[p] = assigned(ix_file.rec)
                        /\ ix_file.st = "full"
                        /\ ~unsaved'[p]
              /\ (ipc'[p] # ipc[p]
                      /\ ipc[p] \notin {"replace", "init_open", "init_dump"})
                     => ix_file' = ix_file]_vars

\* The smallest non-negative integer that names no directory in ds.
SmallestUnused(ds) ==
    CHOOSE n \in 0..Cardinality(ds) : n \notin ds /\ \A m \in 0..(n - 1) : m \in ds

\* The step by which p's call of new() returns its LogFolder.
NF_returns(p) == npc[p] # "done" /\ npc'[p] = "done"

\* C26: LogFolder.new(parent) binds the new folder to the smallest
\* non-negative integer that is not the name of an existing sibling folder,
\* for every set of existing names, sets with gaps included (no folder
\* having appeared in the parent since the call scanned it).
C26_SmallestUnused ==
    [][\A p \in Procs :
          (NF_returns(p) /\ scanned[p] = dirs)
              => new_index[p] = SmallestUnused(dirs)]_vars

\* C26, amended: new(parent) binds the new folder to the smallest integer
\* that is greater than the name of every sibling folder its scan found and
\* that names no entry of the parent when the call tests it.
C26_AboveEveryFolder ==
    [][\A p \in Procs :
          /\ (npc[p] = "loop" /\ npc'[p] = "init")
                => /\ new_index[p] \notin dirs \cup files
                   /\ \A d \in scanned[p] : d < new_index[p]
                   /\ \A j \in 0..(new_index[p] - 1) :
                         (\A d \in scanned[p] : d < j) => j \in dirs \cup files
          /\ NF_returns(p)
                => /\ new_index'[p] = new_index[p]
                   /\ new_index[p] \in dirs'
                   /\ new_index[p] \in returned']_vars

\* A call has returned a folder although a smaller name is unused.
C26_Witness ==
    \E p \in Procs :
        /\ npc[p] = "done"
        /\ \E j \in 0..(new_index[p] - 1) : j \notin dirs \cup files

\* C27: two calls of new(parent), one after the other or at the same time,
\* never return LogFolders bound to the same folder: the folder a call
\* returns was created by that call and did not exist before.
C27_DistinctFolders ==
    [][\A p \in Procs :
          NF_returns(p)
              => /\ new_index[p] \notin returned
                 /\ npc[p] = "mkdir"
                 /\ new_index[p] \notin dirs]_vars

\* The call that first used the key k, and the place of k among its keys.
FirstUse(k) ==
    CHOOSE i \in DOMAIN calls :
        /\ k \in Range(calls[i].keys)
        /\ \A j \in 1..(i - 1) : k \notin Range(calls[j].keys)
Pos(ks, k) == CHOOSE i \in DOMAIN ks : ks[i] = k

\* C28: after any sequence of scalar add_row calls the table df returns has
\* the added rows in call order, each with values under its own keys and null
\* elsewhere, and its columns are the keys used, each once, in the order
\* first seen; the table a df call returned is that table.
C28_ScalarRowsAndColumns ==
    (\A c \in DOMAIN calls : ~calls[c].vec) =>
        LET t == df_table(records, segs)
        IN  /\ Len(t.rows) = Len(calls)
            /\ \A i \in DOMAIN t.rows :
                  t.rows[i].id = i /\ t.rows[i].has = Range(calls[i].keys)
            /\ Range(t.cols) = UNION {Range(calls[c].keys) : c \in DOMAIN calls}
            /\ \A i, j \in DOMAIN t.cols :
                  i < j =>
                     LET a == t.cols[i]
                         b == t.cols[j]
                     IN  /\ a # b
                         /\ \/ FirstUse(a) < FirstUse(b)
                            \/ /\ FirstUse(a) = FirstUse(b)
                               /\ Pos(calls[FirstUse(a)].keys, a)
                                     < Pos(calls[FirstUse(a)].keys, b)
            /\ bres.res = "ok" => (bres.cols = t.cols /\ bres.rows = t.rows)

\* df has returned the table of scalar rows with different keys: it has a
\* null cell.
C28_Witness ==
    /\ \A c \in DOMAIN calls : ~calls[c].vec
    /\ bres.res = "ok"
    /\ Len(bres.rows) >= 2
    /\ \E i \in DOMAIN bres.rows : bres.rows[i].has # Range(bres.cols)

\* The step of a vector add_row call that inserted its rows.
VectorAdded == Len(calls') > Len(calls) /\ calls'[Len(calls')].vec

\* C29: for every interleaving of scalar and vector add_row calls the table
\* df returns lists the rows in insertion order across all calls; a vector
\* insertion leaves no pending scalar row: it moves them into a segment and
\* appends its own segment after it.
C29_InsertionOrder ==
    [][/\ LET t == df_table(records', segs')
          IN  /\ Len(t.rows) = NextId' - 1
              /\ \A i \in DOMAIN t.rows : t.rows[i].id = i
       /\ VectorAdded =>
             /\ records' = <<>>
             /\ Len(segs') = Len(segs) + 1 + (IF records # <<>> THEN 1 ELSE 0)
             /\ records # <<>> =>
                   segs'[Len(segs') - 1].rows
                       = [i \in DOMAIN records |->
                             [id |-> records[i].id, has |-> Range(records[i].keys)]]]_vars

\* df has returned the table of a scalar row, then the rows of a vector
\* insertion, then a scalar row.
C29_Witness ==
    /\ bres.res = "ok"
    /\ \E i, j, k \in DOMAIN calls :
          /\ i < j /\ j < k
          /\ ~calls[i].vec /\ calls[j].vec /\ calls[j].n >= 1 /\ ~calls[k].vec

\* C30: a vector add_row whose sequences differ in length fails in the call
\* and leaves the buffer as it was: the table df returns afterwards is the
\* table it would have returned before the call, no row is entered, and the
\* failed call does not mark the writer dirty.
C30_FailedVectorInsertion ==
    [][(bres.res # "raised" /\ bres'.res = "raised")
          => /\ df_table(records', segs') = df_table(records, segs)
             /\ calls' = calls
             /\ dirty' = dirty]_vars

\* A vector insertion has failed on a buffer that held rows, the writer's
\* dirty signal being clear.
C30_Witness == bres.res = "raised" /\ calls # <<>> /\ ~dirty

C32_WriterOnlyReads ==
    [][wpos' # wpos => (records' = records /\ segs' = segs)]_vars

\* The rows with the number id in the table t.
Copies(t, id) == Cardinality({i \in DOMAIN t.rows : t.rows[i].id = id})

\* C35: no row is lost to the race of the caller with the writer: whenever
\* neither thread is inside a call on the buffer, every row passed to
\* add_row is exactly once in the table df returns; and no write puts a row
\* into the data file twice.
C35_NoRowLost ==
    /\ (cpos \in {"idle", "set_dirty"} /\ wpos \in {"wait", "clear", "save"})
          => \A id \in 1..(NextId - 1) :
                Copies(df_table(records, segs), id) = 1
    /\ \A id \in 1..(NextId - 1) : Copies(bfile, id) <= 1

\* Where _run is when a flush() call that finds _dirty set asks for the
\* cycle that will write what it found: before the end of that cycle's
\* debounce wait, or past the previous cycle's clear of _dirty.
DH_BeforeWrite == {"loop", "wait_dirty", "check_stop", "debounce"}

\* C33: the writer leaves its debounce wait early only on a flush() asked
\* for that cycle: when the wait ends on _skip_debounce, the flag was set by
\* a flush() call made for this cycle; a flag set for an earlier cycle, after
\* the writer had left that cycle's wait and before it cleared _dirty, does
\* not cut the wait of a later cycle.  And a wait that finds the flag set
\* ends at once.  (stop() is left aside: it ends the wait to shut the writer
\* down.)
C33_ShortCircuitOnlyOnRequest ==
    [][(/\ impl = "DataHandler" /\ ~stop
        /\ pc["writer"] = "debounce" /\ pc'["writer"] # "debounce")
          => /\ pc'["writer"] = "clear_skip" <=> skip_debounce
             /\ skip_debounce => fl.skip_at \in DH_BeforeWrite \cup DH_PostClear]_vars

\* C34: a flag value set through one metadata API (the browser's index writer,
\* or the starred and trashed properties of LogIndex) is the value a read
\* through the other API returns: the star flag as set or not set, the trash
\* flag as it is.
C34_OneCanonicalForm ==
    /\ (fres.api = "LogIndex" /\ fres.field = "star" /\ fres.wr.star.api = "browser")
          => (fres.star > 0) = (fres.wr.star.val > 0)
    /\ (fres.api = "LogIndex" /\ fres.field = "trash" /\ fres.wr.trash.api = "browser")
          => fres.trash = (fres.wr.trash.val > 0)
    /\ (fres.api = "browser" /\ fres.wr.star.api = "LogIndex")
          => (fres.star > 0) = (fres.wr.star.val > 0)
    /\ (fres.api = "browser" /\ fres.wr.trash.api = "LogIndex")
          => fres.trash = (fres.wr.trash.val > 0)

\* C36: whenever reload() of an instance that holds no unsaved mutation of
\* its own judges the file unchanged, and the file is a whole record, the
\* instance's in-memory record equals the file's content.
C36_UnchangedMeansEqual ==
    [][\A p \in Procs :
          (ipc[p] = "reload" /\ ipc'[p] # "reload" /\ ~IX_changed(p)
               /\ ~unsaved[p] /\ ix_file.st = "full")
              => iroot[p] = ix_file.rec]_vars

\* C37: an assignment store[k] = v that ends with the lock's timeout leaves
\* no trace of v in the in-memory record: when the file is a whole record,
\* the record's value of k after the failed call is the one on disk.
C37_TimedOutWriteLeavesRecord ==
    [][\A p \in Procs :
          (iop[p].kind = "set" /\ ires'[p] = "timeout" /\ ires[p] # "timeout"
               /\ ix_file'.st = "full")
              => iroot'[p][iop[p].k] = ix_file'.rec[iop[p].k]]_vars

\* C38: constructing a store with create=true never overwrites a record that
\* exists at the path: once the save of an assignment has put a record into
\* the file (one that differs from the default record), no constructor cuts
\* the file with open(path, "w") or writes its default record over it.
C38_CreateNeverOverwrites ==
    [][\A p \in Procs :
          (ipc[p] \in {"init_open", "init_dump"} /\ ipc'[p] # ipc[p]
               /\ ix_file.st = "full" /\ ix_file.n > 0 /\ ix_file.rec # ZeroRec)
              => ix_file' = ix_file]_vars

\* C39: a construction of LogFolder that fails with FileNotFoundError
\* leaves no writer thread running: every writer thread that has been
\* started belongs to a folder under construction or to one the caller holds.
C39_NoWriterWithoutFolder ==
    \A i \in DOMAIN othreads : othreads[i].folder # "failed"

\* C40: metadata added with add_meta or add_meta_to_head is written to the
\* meta file by the background writer even when no row follows: the writer
\* of a running LogFolder never sits in its wait for the dirty signal, the
\* signal clear and the caller idle, while the meta file lacks metadata that
\* was added.
C40_MetaOnlyChangeIsSaved ==
    ( /\ impl = "LogFolder" /\ ~stop
      /\ pc["writer"] = "wait_dirty" /\ pc["caller"] = "idle"
      /\ meta > 0 /\ meta_file # Full(meta) )
    => dirty

====
